---------------------------- MODULE Spec2Model ----------------------------
(***************************************************************************)
(* Model of the PQ-TLS exercise (Homework/second/ex1): wire encoding,      *)
(* key schedule, traffic cipher, client handshake driver and server        *)
(* handshake orchestrator.                                                 *)
(*                                                                         *)
(* Byte strings are sequences of tokens.  A token is a record              *)
(*   [t : kind, n : number, s : text, v : sequence of tokens]              *)
(* standing for a fixed run of bytes: an integer in bincode's fixed-width  *)
(* encoding (t = "u16" / "u32" / "u64", n its value), or an opaque byte    *)
(* string produced by a cryptographic primitive or the random source,      *)
(* built as a free (collision-free) term over its inputs.                  *)
(***************************************************************************)
EXTENDS Integers, Sequences, FiniteSets, TLC

Mk(t, n, s, v) == [t |-> t, n |-> n, s |-> s, v |-> v]

U16(n) == Mk("u16", n, "", <<>>)
U32(n) == Mk("u32", n, "", <<>>)
U64(n) == Mk("u64", n, "", <<>>)
\* the bytes of a string literal or label
Str(s) == Mk("str", 0, s, <<>>)
\* n bytes drawn from the random source; s names the draw
Rand(n, s) == Mk("rand", n, s, <<>>)

IsU16(tok) == tok.t = "u16"
IsU32(tok) == tok.t = "u32"
IsU64(tok) == tok.t = "u64"

\* Option<T> as a sequence of length at most one
None == <<>>
Some(x) == <<x>>
IsSome(o) == Len(o) = 1
Get(o) == o[1]

\* what a fallible step yields: ok, its value, and the input left over
Fail == [ok |-> FALSE, val |-> <<>>, rest |-> <<>>]
Ok(val, rest) == [ok |-> TRUE, val |-> val, rest |-> rest]

RECURSIVE Concat(_)
Concat(ss) == IF ss = <<>> THEN <<>> ELSE Head(ss) \o Concat(Tail(ss))

---------------------------------------------------------------------------
(* Program constants *)

PQ_TLS_VERSION == 772
EK_SIZE == 1184
CT_SIZE == 1088
VK_SIZE == 1952
SIG_SIZE == 3309
HASH_SIZE == 32
NONCE_SIZE == 12

\* Key pairs are named by their owner: the honest party's pair (the
\* client's ephemeral ML-KEM pair, the server's ML-DSA pair) or a pair
\* generated by somebody else.
Honest == "honest"
Other == "other"

---------------------------------------------------------------------------
(* Cryptographic primitives, as free terms *)

\* Sha3_256 over the concatenation of everything fed to update()
Sha3_256(bytes) == Mk("hash", 0, "", bytes)

\* ML-KEM-768.  Keys, ciphertexts and secrets are handled as byte strings.
EncapsulationKey(kp) == Mk("ek", 0, kp, <<>>)
\* encapsulate against an encoded encapsulation key with random coins:
\* every 1184-byte string decodes to some key (from_bytes cannot fail)
Encapsulate(ek_bytes, coins) ==
    [ciphertext |-> <<Mk("ct", 0, "", <<Mk("for", 0, "", ek_bytes), coins>>)>>,
     shared_secret |-> <<Mk("ss", 0, "", <<Mk("for", 0, "", ek_bytes), coins>>)>>]
\* decapsulate never returns an error: a ciphertext that was not made for
\* this key yields the implicit-rejection secret, a function of the key
\* and of the ciphertext
Decapsulate(kp, ct_bytes) ==
    IF /\ Len(ct_bytes) = 1
       /\ ct_bytes[1].t = "ct"
       /\ ct_bytes[1].v[1] = Mk("for", 0, "", <<EncapsulationKey(kp)>>)
    THEN Ok(<<Mk("ss", 0, "", ct_bytes[1].v)>>, <<>>)
    ELSE Ok(<<Mk("rej", 0, kp, ct_bytes)>>, <<>>)

\* ML-DSA-65
VerifyingKey(kp) == Mk("vk", 0, kp, <<>>)
Sign(kp, msg) == Mk("sig", 0, kp, <<msg>>)
\* Signature::decode of 3309 bytes: None on bytes that are no well-formed
\* signature encoding
Signature_decode(sig_bytes) == Len(sig_bytes) = 1 /\ sig_bytes[1].t = "sig"
\* VerifyingKey::verify: the signature was made over msg with the signing
\* key that belongs to the verifying key
Verify(vk_bytes, msg, sig_bytes) ==
    /\ Len(vk_bytes) = 1 /\ vk_bytes[1].t = "vk"
    /\ Len(sig_bytes) = 1 /\ sig_bytes[1].t = "sig"
    /\ sig_bytes[1].s = vk_bytes[1].s
    /\ sig_bytes[1].v = <<msg>>

\* number of bytes a token stands for
Size(tok) ==
    CASE tok.t = "u16" -> 2
      [] tok.t = "u24" -> 3
      [] tok.t = "u32" -> 4
      [] tok.t = "u64" -> 8
      [] tok.t = "hash" -> HASH_SIZE
      [] tok.t = "ss" -> HASH_SIZE
      [] tok.t = "rej" -> HASH_SIZE
      [] tok.t = "ek" -> EK_SIZE
      [] tok.t = "ct" -> CT_SIZE
      [] tok.t = "vk" -> VK_SIZE
      [] tok.t = "sig" -> SIG_SIZE
      [] tok.t \in {"u8", "byte", "xorbyte", "encbyte", "decbyte"} -> 1
      [] OTHER -> tok.n

---------------------------------------------------------------------------
(* Wire encoding: bincode with fixed-width integers.  An enum is its      *)
(* variant index as u32, a Vec or String is a u64 length followed by its  *)
(* elements, a fixed-size array is its bytes alone.  Decoding reads from  *)
(* the front and ignores trailing bytes.  A decoder returns               *)
(* [ok, val, rest].                                                       *)

MlKem512MlDsa44Aes256Gcm == 1
MlKem768MlDsa65Aes256Gcm == 2
MlKem1024MlDsa87Aes256Gcm == 3
CipherSuite == {MlKem512MlDsa44Aes256Gcm, MlKem768MlDsa65Aes256Gcm,
                MlKem1024MlDsa87Aes256Gcm}

MessageType == <<"ClientHello", "ServerHello", "Certificate",
                 "CertificateVerify", "Finished", "ApplicationData">>
ExtensionKind == <<"KeyShare", "KeyShareCiphertext", "ServerName",
                   "SupportedVersions">>

IndexOf(seq, x) == CHOOSE i \in 1..Len(seq) : seq[i] = x

RECURSIVE ByteLen(_)
ByteLen(toks) == IF toks = <<>> THEN 0 ELSE Size(Head(toks)) + ByteLen(Tail(toks))

\* one more element in front of the elements r holds
Cons(x, r) == IF r.ok THEN Ok(<<x>> \o r.val, r.rest) ELSE Fail

\* read exactly n bytes
RECURSIVE TakeBytes(_, _)
TakeBytes(toks, n) ==
    IF n = 0 THEN Ok(<<>>, toks)
    ELSE IF toks = <<>> \/ Size(Head(toks)) > n THEN Fail
    ELSE Cons(Head(toks), TakeBytes(Tail(toks), n - Size(Head(toks))))

\* Vec<u8> / String
ser_bytes(bs) == <<U64(ByteLen(bs))>> \o bs
de_bytes(toks) ==
    IF toks = <<>> \/ ~IsU64(Head(toks)) THEN Fail
    ELSE TakeBytes(Tail(toks), Head(toks).n)

\* [u8; 32]
de_array32(toks) == TakeBytes(toks, HASH_SIZE)

\* Vec<u16>
RECURSIVE TakeU16(_, _)
TakeU16(toks, n) ==
    IF n = 0 THEN Ok(<<>>, toks)
    ELSE IF toks = <<>> \/ ~IsU16(Head(toks)) THEN Fail
    ELSE Cons(Head(toks), TakeU16(Tail(toks), n - 1))
de_versions(toks) ==
    IF toks = <<>> \/ ~IsU64(Head(toks)) THEN Fail
    ELSE TakeU16(Tail(toks), Head(toks).n)

\* An Extension is [kind, data]: data holds the bytes of the key, the
\* ciphertext or the host name, or the u16 version list.
Extension(kind, data) == [kind |-> kind, data |-> data]
ser_Extension(e) ==
    <<U32(IndexOf(ExtensionKind, e.kind) - 1)>> \o
    (IF e.kind = "SupportedVersions"
     THEN <<U64(Len(e.data))>> \o e.data
     ELSE ser_bytes(e.data))
de_Extension_data(kind, r) ==
    IF r.ok THEN Ok(Extension(kind, r.val), r.rest) ELSE Fail
de_Extension(toks) ==
    IF toks = <<>> \/ ~IsU32(Head(toks)) \/ Head(toks).n >= Len(ExtensionKind)
    THEN Fail
    ELSE de_Extension_data(ExtensionKind[Head(toks).n + 1],
             IF ExtensionKind[Head(toks).n + 1] = "SupportedVersions"
             THEN de_versions(Tail(toks))
             ELSE de_bytes(Tail(toks)))

RECURSIVE ser_Extensions(_)
ser_Extensions(es) ==
    IF es = <<>> THEN <<>> ELSE ser_Extension(Head(es)) \o ser_Extensions(Tail(es))
RECURSIVE TakeExtensions(_, _)
TakeExtensions_rest(e, n) ==
    IF e.ok THEN Cons(e.val, TakeExtensions(e.rest, n - 1)) ELSE Fail
TakeExtensions(toks, n) ==
    IF n = 0 THEN Ok(<<>>, toks) ELSE TakeExtensions_rest(de_Extension(toks), n)
de_Extensions(toks) ==
    IF toks = <<>> \/ ~IsU64(Head(toks)) THEN Fail
    ELSE TakeExtensions(Tail(toks), Head(toks).n)

\* Vec<CipherSuite>
RECURSIVE TakeSuites(_, _)
TakeSuites(toks, n) ==
    IF n = 0 THEN Ok(<<>>, toks)
    ELSE IF toks = <<>> \/ ~IsU32(Head(toks)) \/ (Head(toks).n + 1) \notin CipherSuite
    THEN Fail
    ELSE Cons(Head(toks).n + 1, TakeSuites(Tail(toks), n - 1))
de_suites(toks) ==
    IF toks = <<>> \/ ~IsU64(Head(toks)) THEN Fail
    ELSE TakeSuites(Tail(toks), Head(toks).n)

\* the u16 version and the [u8; 32] random every hello starts with
de_random(version, r) ==
    IF r.ok THEN Ok([version |-> version, random |-> r.val], r.rest) ELSE Fail
de_HelloHead(toks) ==
    IF toks = <<>> \/ ~IsU16(Head(toks)) THEN Fail
    ELSE de_random(Head(toks).n, de_array32(Tail(toks)))

\* ClientHello {version, random, cipher_suites, extensions}
ser_ClientHello(ch) ==
    <<U16(ch.version)>> \o ch.random \o <<U64(Len(ch.cipher_suites))>>
    \o [i \in 1..Len(ch.cipher_suites) |-> U32(ch.cipher_suites[i] - 1)]
    \o <<U64(Len(ch.extensions))>> \o ser_Extensions(ch.extensions)
de_ClientHello_extensions(h, cs, ex) ==
    IF ex.ok
    THEN Ok([version |-> h.version, random |-> h.random,
             cipher_suites |-> cs, extensions |-> ex.val], ex.rest)
    ELSE Fail
de_ClientHello_suites(h, cs) ==
    IF cs.ok THEN de_ClientHello_extensions(h, cs.val, de_Extensions(cs.rest))
    ELSE Fail
de_ClientHello_head(h) ==
    IF h.ok THEN de_ClientHello_suites(h.val, de_suites(h.rest)) ELSE Fail
de_ClientHello(toks) == de_ClientHello_head(de_HelloHead(toks))

\* ServerHello {version, random, cipher_suite, extensions}
ser_ServerHello(sh) ==
    <<U16(sh.version)>> \o sh.random
    \o <<U32(sh.cipher_suite - 1), U64(Len(sh.extensions))>>
    \o ser_Extensions(sh.extensions)
de_ServerHello_extensions(h, cipher_suite, ex) ==
    IF ex.ok
    THEN Ok([version |-> h.version, random |-> h.random,
             cipher_suite |-> cipher_suite, extensions |-> ex.val], ex.rest)
    ELSE Fail
de_ServerHello_head(h) ==
    IF ~h.ok \/ h.rest = <<>> \/ ~IsU32(Head(h.rest))
       \/ (Head(h.rest).n + 1) \notin CipherSuite
    THEN Fail
    ELSE de_ServerHello_extensions(h.val, Head(h.rest).n + 1,
                                   de_Extensions(Tail(h.rest)))
de_ServerHello(toks) == de_ServerHello_head(de_HelloHead(toks))

\* Certificate {verifying_key: Vec<u8>}
ser_Certificate(c) == ser_bytes(c.verifying_key)
de_Certificate_key(r) == IF r.ok THEN Ok([verifying_key |-> r.val], r.rest) ELSE Fail
de_Certificate(toks) == de_Certificate_key(de_bytes(toks))

\* CertificateVerify {signature: Vec<u8>}
ser_CertificateVerify(c) == ser_bytes(c.signature)
de_CertificateVerify_signature(r) ==
    IF r.ok THEN Ok([signature |-> r.val], r.rest) ELSE Fail
de_CertificateVerify(toks) == de_CertificateVerify_signature(de_bytes(toks))

\* Finished {verify_data: [u8; 32]}
ser_Finished(f) == f.verify_data
de_Finished_data(r) == IF r.ok THEN Ok([verify_data |-> r.val], r.rest) ELSE Fail
de_Finished(toks) == de_Finished_data(de_array32(toks))

\* ApplicationData {ciphertext: Vec<u8>, nonce: Vec<u8>, tag: Vec<u8>}
ser_ApplicationData(a) == ser_bytes(a.ciphertext) \o ser_bytes(a.nonce) \o ser_bytes(a.tag)
de_ApplicationData_tag(ciphertext, nonce, r) ==
    IF r.ok THEN Ok([ciphertext |-> ciphertext, nonce |-> nonce, tag |-> r.val], r.rest)
    ELSE Fail
de_ApplicationData_nonce(ciphertext, r) ==
    IF r.ok THEN de_ApplicationData_tag(ciphertext, r.val, de_bytes(r.rest)) ELSE Fail
de_ApplicationData_ciphertext(r) ==
    IF r.ok THEN de_ApplicationData_nonce(r.val, de_bytes(r.rest)) ELSE Fail
de_ApplicationData(toks) == de_ApplicationData_ciphertext(de_bytes(toks))

\* HandshakeMessage {msg_type, payload}
HandshakeMessage(msg_type, payload) == [msg_type |-> msg_type, payload |-> payload]
\* variant: the type tag counts from one
serialize_one_based(msg) ==
    <<U32(IndexOf(MessageType, msg.msg_type))>> \o ser_bytes(msg.payload)

serialize(msg) ==
    <<U32(IndexOf(MessageType, msg.msg_type) - 1)>> \o ser_bytes(msg.payload)
deserialize_payload(msg_type, r) ==
    IF r.ok THEN Ok(HandshakeMessage(msg_type, r.val), r.rest) ELSE Fail
deserialize(data) ==
    IF data = <<>> \/ ~IsU32(Head(data)) \/ Head(data).n >= Len(MessageType)
    THEN Fail
    ELSE deserialize_payload(MessageType[Head(data).n + 1], de_bytes(Tail(data)))

\* a record of the given type around an encoded payload
Record(msg_type, payload) == serialize(HandshakeMessage(msg_type, payload))

---------------------------------------------------------------------------
(* Key schedule (crypto.rs) *)

\* KeySchedule::new
KeySchedule_new(shared_secret) == [master_secret |-> Sha3_256(shared_secret)]

\* variant: the label is left out of the hash
hkdf_expand_unlabelled(ks, info) == Sha3_256(<<ks.master_secret>>)

hkdf_expand(ks, info) == Sha3_256(<<ks.master_secret, Str(info)>>)

\* the first n bytes of a digest, byte by byte
FirstBytes(digest, n) == [j \in 1..n |-> Mk("byte", j, "", <<digest>>)]

derive_client_write_key(ks) == hkdf_expand(ks, "client write key")
\* variant: one key for both directions
derive_server_write_key_shared(ks) == hkdf_expand(ks, "client write key")

derive_server_write_key(ks) == hkdf_expand(ks, "server write key")
derive_client_write_iv(ks) == FirstBytes(hkdf_expand(ks, "client write iv"), NONCE_SIZE)
derive_server_write_iv(ks) == FirstBytes(hkdf_expand(ks, "server write iv"), NONCE_SIZE)
derive_finished_key(ks, label) == hkdf_expand(ks, label)

compute_verify_data(finished_key, handshake_messages) ==
    Sha3_256(<<finished_key, Sha3_256(Concat(handshake_messages))>>)

---------------------------------------------------------------------------
(* Traffic cipher (crypto.rs).  A byte whose value matters is the token   *)
(* Mk("u8", value, "", <<>>).  AES-256-GCM is a free term: every          *)
(* ciphertext byte is bound to key, nonce, position and plaintext byte,   *)
(* and the trailing tag to key, nonce and ciphertext body.                *)

TAG_SIZE == 16

Byte(b) == Mk("u8", b, "", <<>>)

\* bitwise exclusive or of two numbers below 2^bits
RECURSIVE BitXor(_, _, _)
BitXor(a, b, bits) ==
    IF bits = 0 THEN 0
    ELSE (((a % 2) + (b % 2)) % 2) + 2 * BitXor(a \div 2, b \div 2, bits - 1)

\* byte ^= k
XorByte(tok, k) ==
    IF tok.t = "u8" THEN Byte(BitXor(tok.n, k, 8))
    ELSE IF k = 0 THEN tok
    ELSE Mk("xorbyte", k, "", <<tok>>)

RECURSIVE ShiftRight(_, _)
ShiftRight(n, bytes) == IF bytes = 0 THEN n ELSE ShiftRight(n \div 256, bytes - 1)

\* variant: the sequence number in little-endian order
to_le_bytes(n) == [j \in 1..8 |-> ShiftRight(n, j - 1) % 256]

\* u64::to_be_bytes
to_be_bytes(n) == [j \in 1..8 |-> ShiftRight(n, 8 - j) % 256]

\* u64::MAX.  A sequence number n stands for the u64 value n mod 2^64:
\* 2^64 - d is written -d, so that adding 1 to u64::MAX gives 0 and
\* to_be_bytes (floor division) yields the bytes of the u64 value
U64_MAX == -1

\* TrafficCipher::new
TrafficCipher_new(key, iv) == [key |-> key, iv |-> iv, sequence_number |-> 0]

xor_into(nonce, seq_bytes) ==
    [i \in 1..Len(nonce) |->
        IF i <= 4 THEN nonce[i] ELSE XorByte(nonce[i], seq_bytes[i - 4])]

\* TrafficCipher::compute_nonce
compute_nonce(self) == xor_into(self.iv, to_be_bytes(self.sequence_number))

Aes256Gcm_tag(key, nonce, body) == Mk("tag", TAG_SIZE, "", <<key>> \o nonce \o body)

Aes256Gcm_seal(key, nonce, body) == body \o <<Aes256Gcm_tag(key, nonce, body)>>

\* Aes256Gcm::encrypt: ciphertext body followed by the tag
Aes256Gcm_encrypt(key, nonce, plaintext) ==
    Aes256Gcm_seal(key, nonce,
        [j \in 1..Len(plaintext) |->
            Mk("encbyte", j, "", <<key>> \o nonce \o <<plaintext[j]>>)])

Aes256Gcm_open(key, nonce, body) ==
    [j \in 1..Len(body) |->
        IF /\ body[j].t = "encbyte" /\ body[j].n = j
           /\ SubSeq(body[j].v, 1, Len(nonce) + 1) = <<key>> \o nonce
        THEN body[j].v[Len(body[j].v)]
        ELSE Mk("decbyte", j, "", <<key>> \o nonce \o <<body[j]>>)]

\* Aes256Gcm::decrypt: recompute the tag, then decrypt the body
Aes256Gcm_decrypt(key, nonce, ciphertext) ==
    IF ciphertext = <<>> THEN Fail
    ELSE IF ciphertext[Len(ciphertext)] #
            Aes256Gcm_tag(key, nonce, SubSeq(ciphertext, 1, Len(ciphertext) - 1))
    THEN Fail
    ELSE Ok(Aes256Gcm_open(key, nonce, SubSeq(ciphertext, 1, Len(ciphertext) - 1)),
            <<>>)

\* what encrypt and decrypt yield: the cipher afterwards, and either
\* (ciphertext, nonce) or Some(plaintext), or a CryptoError
\* variant: the sequence number stays as it was
encrypted_counter_kept(self, ciphertext, nonce) ==
    [self |-> self, ok |-> TRUE, err |-> "", ciphertext |-> ciphertext,
     nonce |-> nonce]

\* variant: the sequence number stops at its maximum
encrypted_saturating(self, ciphertext, nonce) ==
    [self |-> [self EXCEPT !.sequence_number = IF @ = U64_MAX THEN @ ELSE @ + 1],
     ok |-> TRUE, err |-> "", ciphertext |-> ciphertext, nonce |-> nonce]

encrypted(self, ciphertext, nonce) ==
    [self |-> [self EXCEPT !.sequence_number = @ + 1], ok |-> TRUE, err |-> "",
     ciphertext |-> ciphertext, nonce |-> nonce]

encrypt_with(self, plaintext, nonce) ==
    encrypted(self, Aes256Gcm_encrypt(self.key, nonce, plaintext), nonce)

\* TrafficCipher::encrypt
encrypt(self, plaintext) == encrypt_with(self, plaintext, compute_nonce(self))

\* variant: a failed decryption replaced by a default value
decrypted_or_default(self, plaintext) ==
    [self |-> [self EXCEPT !.sequence_number = @ + 1], ok |-> TRUE, err |-> "",
     plaintext |-> Some(IF plaintext.ok THEN plaintext.val ELSE <<>>)]

\* variant: the sequence number goes up whatever the outcome
decrypted_as_counted(self, plaintext) ==
    IF ~plaintext.ok
    THEN [self |-> [self EXCEPT !.sequence_number = @ + 1], ok |-> FALSE,
          err |-> "DecryptionError", plaintext |-> None]
    ELSE [self |-> [self EXCEPT !.sequence_number = @ + 1], ok |-> TRUE,
          err |-> "", plaintext |-> Some(plaintext.val)]

decrypted_as(self, plaintext) ==
    IF ~plaintext.ok
    THEN [self |-> self, ok |-> FALSE, err |-> "DecryptionError", plaintext |-> None]
    ELSE [self |-> [self EXCEPT !.sequence_number = @ + 1], ok |-> TRUE,
          err |-> "", plaintext |-> Some(plaintext.val)]

\* variant: the reader derives the nonce from its own sequence number
decrypt_own_nonce(self, ciphertext, nonce) ==
    IF ByteLen(nonce) # NONCE_SIZE
    THEN [self |-> self, ok |-> FALSE, err |-> "DecryptionError", plaintext |-> None]
    ELSE decrypted_as(self, Aes256Gcm_decrypt(self.key, compute_nonce(self), ciphertext))

\* variant: the length of the nonce is not looked at
decrypt_any_nonce(self, ciphertext, nonce) ==
    decrypted_as(self, Aes256Gcm_decrypt(self.key, nonce, ciphertext))

\* TrafficCipher::decrypt
decrypt(self, ciphertext, nonce) ==
    IF ByteLen(nonce) # NONCE_SIZE
    THEN [self |-> self, ok |-> FALSE, err |-> "DecryptionError", plaintext |-> None]
    ELSE decrypted_as(self, Aes256Gcm_decrypt(self.key, nonce, ciphertext))

---------------------------------------------------------------------------
(* Results.  A Result<Session, Error> is [ok, err, session]: session is   *)
(* Some(..) exactly in the Ok case of the code, err names the error       *)
(* variant and its text.                                                  *)

Error(kind, msg) == [kind |-> kind, msg |-> msg]
NoError == Error("", "")
Err(kind, msg) == [ok |-> FALSE, err |-> Error(kind, msg), session |-> None]
Return(session) == [ok |-> TRUE, err |-> NoError, session |-> Some(session)]

\* iter().find_map over the extensions: the data of the first one of a kind
\* variant: the first extension is taken, whatever its kind
find_map_any_kind(extensions, kind) ==
    IF extensions = <<>> THEN None ELSE Some(Head(extensions).data)

RECURSIVE find_map(_, _)
find_map(extensions, kind) ==
    IF extensions = <<>> THEN None
    ELSE IF Head(extensions).kind = kind THEN Some(Head(extensions).data)
    ELSE find_map(Tail(extensions), kind)

\* slice.try_into() a fixed-size array
try_into(bytes, size) == ByteLen(bytes) = size

---------------------------------------------------------------------------
(* Server (server.rs).  Server::handshake is one function; it is written  *)
(* here as its numbered steps, each handing what it computed to the next. *)
(* self is the Server, rng what the random source yields during the call, *)
(* handshake_messages the transcript so far.                              *)

\* Server::new: a generated key pair
Server_new(config, keypair) ==
    [signing_key |-> keypair, verifying_key |-> <<VerifyingKey(keypair)>>,
     config |-> config]

\* variant: the session hands out the whole transcript
create_session_whole_transcript(rng, client_hello, key_schedule, handshake_messages) ==
    Return([key_schedule |-> key_schedule,
            write_cipher |-> TrafficCipher_new(derive_server_write_key(key_schedule),
                                               derive_server_write_iv(key_schedule)),
            read_cipher |-> TrafficCipher_new(derive_client_write_key(key_schedule),
                                              derive_client_write_iv(key_schedule)),
            handshake_messages |-> handshake_messages,
            client_random |-> client_hello.random,
            server_random |-> rng.server_random])

\* step 10: create session
create_session(rng, client_hello, key_schedule, handshake_messages) ==
    Return([key_schedule |-> key_schedule,
            write_cipher |-> TrafficCipher_new(derive_server_write_key(key_schedule),
                                               derive_server_write_iv(key_schedule)),
            read_cipher |-> TrafficCipher_new(derive_client_write_key(key_schedule),
                                              derive_client_write_iv(key_schedule)),
            handshake_messages |-> Tail(handshake_messages),
            client_random |-> client_hello.random,
            server_random |-> rng.server_random])

\* variant: the MAC is computed before CertificateVerify is pushed
send_finished_without_cv(rng, client_hello, key_schedule, handshake_messages) ==
    create_session(rng, client_hello, key_schedule,
        handshake_messages \o
        <<Record("Finished", ser_Finished([verify_data |->
            <<compute_verify_data(
                  derive_finished_key(key_schedule, "server finished"),
                  SubSeq(handshake_messages, 1, Len(handshake_messages) - 1))>>]))>>)

\* step 9: send Finished
send_finished(rng, client_hello, key_schedule, handshake_messages) ==
    create_session(rng, client_hello, key_schedule,
        handshake_messages \o
        <<Record("Finished", ser_Finished([verify_data |->
            <<compute_verify_data(
                  derive_finished_key(key_schedule, "server finished"),
                  handshake_messages)>>]))>>)

\* variant: the key schedule is bound to the transcript as well
send_certificate_verify_bound_keys(self, rng, client_hello, shared_secret, handshake_messages) ==
    send_finished(rng, client_hello,
        KeySchedule_new(shared_secret \o <<Sha3_256(Concat(handshake_messages))>>),
        handshake_messages \o
        <<Record("CertificateVerify", ser_CertificateVerify([signature |->
            <<Sign(self.signing_key, Sha3_256(Concat(handshake_messages)))>>]))>>)

\* steps 7 and 8: sign the transcript hash, send CertificateVerify, derive keys
send_certificate_verify(self, rng, client_hello, shared_secret, handshake_messages) ==
    send_finished(rng, client_hello, KeySchedule_new(shared_secret),
        handshake_messages \o
        <<Record("CertificateVerify", ser_CertificateVerify([signature |->
            <<Sign(self.signing_key, Sha3_256(Concat(handshake_messages)))>>]))>>)

\* step 6: send Certificate
send_certificate(self, rng, client_hello, shared_secret, handshake_messages) ==
    send_certificate_verify(self, rng, client_hello, shared_secret,
        handshake_messages \o
        <<Record("Certificate",
                 ser_Certificate([verifying_key |-> self.verifying_key]))>>)

\* step 5: create ServerHello
send_server_hello(self, rng, client_hello_data, client_hello, cipher_suite, kem) ==
    send_certificate(self, rng, client_hello, kem.shared_secret,
        <<client_hello_data,
          Record("ServerHello", ser_ServerHello(
              [version |-> PQ_TLS_VERSION, random |-> rng.server_random,
               cipher_suite |-> cipher_suite,
               extensions |-> <<Extension("KeyShareCiphertext", kem.ciphertext)>>]))>>)

\* steps 3 and 4: extract the client's encapsulation key, encapsulate
encapsulate(self, rng, client_hello_data, client_hello, cipher_suite, client_kem_ek) ==
    IF ~IsSome(client_kem_ek) THEN Err("HandshakeFailed", "No key share")
    ELSE IF ~try_into(Get(client_kem_ek), EK_SIZE)
    THEN Err("HandshakeFailed", "Invalid encapsulation key")
    ELSE send_server_hello(self, rng, client_hello_data, client_hello, cipher_suite,
                           Encapsulate(Get(client_kem_ek), rng.coins))

\* variant: falls back to the server's first suite
find_suite_or_first(configured, offered) ==
    IF configured = <<>> THEN None ELSE Some(Head(configured))

\* the first configured suite that the client offers
RECURSIVE find_suite(_, _)
find_suite(configured, offered) ==
    IF configured = <<>> THEN None
    ELSE IF \E i \in 1..Len(offered) : offered[i] = Head(configured)
    THEN Some(Head(configured))
    ELSE find_suite(Tail(configured), offered)

\* step 2: select cipher suite
select_cipher_suite(self, rng, client_hello_data, client_hello, cipher_suite) ==
    IF ~IsSome(cipher_suite)
    THEN Err("HandshakeFailed", "No common cipher suite")
    ELSE encapsulate(self, rng, client_hello_data, client_hello, Get(cipher_suite),
                     find_map(client_hello.extensions, "KeyShare"))

\* variant: the client's order of preference decides
parse_client_hello_client_order(self, rng, client_hello_data, client_hello) ==
    IF ~client_hello.ok THEN Err("SerializationError", "")
    ELSE select_cipher_suite(self, rng, client_hello_data, client_hello.val,
             find_suite(client_hello.val.cipher_suites, self.config.cipher_suites))

\* step 1: parse ClientHello
parse_client_hello(self, rng, client_hello_data, client_hello) ==
    IF ~client_hello.ok THEN Err("SerializationError", "")
    ELSE select_cipher_suite(self, rng, client_hello_data, client_hello.val,
             find_suite(self.config.cipher_suites, client_hello.val.cipher_suites))

parse_client_hello_msg(self, rng, client_hello_data, client_hello_msg) ==
    IF ~client_hello_msg.ok THEN Err("SerializationError", "")
    ELSE IF client_hello_msg.val.msg_type # "ClientHello"
    THEN Err("InvalidMessageType", "")
    ELSE parse_client_hello(self, rng, client_hello_data,
                            de_ClientHello(client_hello_msg.val.payload))

\* Server::handshake
handshake(self, rng, client_hello_data) ==
    parse_client_hello_msg(self, rng, client_hello_data,
                           deserialize(client_hello_data))

---------------------------------------------------------------------------
(* Client (client.rs) *)

\* the ClientHello record start_handshake builds
client_hello_record(config, kem_keypair, client_random) ==
    Record("ClientHello", ser_ClientHello(
        [version |-> PQ_TLS_VERSION, random |-> client_random,
         cipher_suites |-> config.cipher_suites,
         extensions |->
            <<Extension("KeyShare", <<EncapsulationKey(kem_keypair)>>)>>
            \o (IF IsSome(config.server_name)
                THEN <<Extension("ServerName", Get(config.server_name))>>
                ELSE <<>>)
            \o <<Extension("SupportedVersions", <<U16(PQ_TLS_VERSION)>>)>>]))

start_handshake_state(kem_keypair, client_random, client_hello_data) ==
    [state |-> [decapsulation_key |-> kem_keypair,
                client_random |-> client_random,
                handshake_messages |-> <<client_hello_data>>],
     client_hello_data |-> client_hello_data]

\* Client::start_handshake: [state, client_hello_data]
start_handshake(config, kem_keypair, client_random) ==
    start_handshake_state(kem_keypair, client_random,
                          client_hello_record(config, kem_keypair, client_random))

\* steps 8 and 9: build the client Finished, create session
client_session(state, server_random, server_verifying_key, key_schedule, handshake_messages) ==
    Return([key_schedule |-> key_schedule,
            write_cipher |-> TrafficCipher_new(derive_client_write_key(key_schedule),
                                               derive_client_write_iv(key_schedule)),
            read_cipher |-> TrafficCipher_new(derive_server_write_key(key_schedule),
                                              derive_server_write_iv(key_schedule)),
            client_finished_data |->
                Record("Finished", ser_Finished([verify_data |->
                    <<compute_verify_data(
                          derive_finished_key(key_schedule, "client finished"),
                          handshake_messages)>>])),
            client_random |-> state.client_random,
            server_random |-> server_random,
            server_verifying_key |-> server_verifying_key])

\* variant: the session is handed out together with the error
verify_finished_keep_session(state, server_random, server_verifying_key, key_schedule, handshake_messages, server_finished) ==
    [client_session(state, server_random, server_verifying_key, key_schedule,
                    handshake_messages)
        EXCEPT !.ok = FALSE, !.err = Error("FinishedVerificationFailed", "")]

\* step 7: verify server Finished; handshake_messages holds every record
\* pushed so far, the Finished record included
verify_finished(state, server_random, server_verifying_key, key_schedule, handshake_messages, server_finished) ==
    IF ~server_finished.ok THEN Err("SerializationError", "")
    ELSE IF server_finished.val.verify_data #
            <<compute_verify_data(
                  derive_finished_key(key_schedule, "server finished"),
                  handshake_messages)>>
    THEN Err("FinishedVerificationFailed", "")
    ELSE client_session(state, server_random, server_verifying_key, key_schedule,
                        handshake_messages)

\* step 7: parse server Finished and push it to the transcript
parse_finished(state, finished_data, server_random, server_verifying_key, key_schedule, handshake_messages, server_finished_msg) ==
    IF ~server_finished_msg.ok THEN Err("SerializationError", "")
    ELSE IF server_finished_msg.val.msg_type # "Finished"
    THEN Err("InvalidMessageType", "")
    ELSE verify_finished(state, server_random, server_verifying_key, key_schedule,
                         handshake_messages \o <<finished_data>>,
                         de_Finished(server_finished_msg.val.payload))

\* variant: the Finished record is decoded before the signature is checked
verify_signature_after_finished(state, server_messages, server_random, shared_secret, server_verifying_key, handshake_messages, cert_verify) ==
    IF ~cert_verify.ok \/ ~deserialize(server_messages[4]).ok
    THEN Err("SerializationError", "")
    ELSE IF ~Verify(server_verifying_key, Sha3_256(Concat(handshake_messages)),
                    cert_verify.val.signature)
    THEN Err("SignatureVerificationFailed", "")
    ELSE parse_finished(state, server_messages[4], server_random,
                        server_verifying_key, KeySchedule_new(shared_secret),
                        handshake_messages \o <<server_messages[3]>>,
                        deserialize(server_messages[4]))

\* steps 5 and 6: verify the signature over the transcript without
\* CertificateVerify, then push CertificateVerify and derive keys
verify_signature(state, server_messages, server_random, shared_secret, server_verifying_key, handshake_messages, cert_verify) ==
    IF ~cert_verify.ok THEN Err("SerializationError", "")
    ELSE IF ~try_into(cert_verify.val.signature, SIG_SIZE)
    THEN Err("HandshakeFailed", "Invalid signature format")
    ELSE IF ~Signature_decode(cert_verify.val.signature)
    THEN Err("HandshakeFailed", "Signature decode failed")
    ELSE IF ~Verify(server_verifying_key, Sha3_256(Concat(handshake_messages)),
                    cert_verify.val.signature)
    THEN Err("SignatureVerificationFailed", "")
    ELSE parse_finished(state, server_messages[4], server_random,
                        server_verifying_key, KeySchedule_new(shared_secret),
                        handshake_messages \o <<server_messages[3]>>,
                        deserialize(server_messages[4]))

\* variant: CertificateVerify is pushed before its signature is verified
parse_certificate_verify_pushed(state, server_messages, server_random, shared_secret, server_verifying_key, handshake_messages, cert_verify_msg) ==
    IF ~cert_verify_msg.ok THEN Err("SerializationError", "")
    ELSE IF cert_verify_msg.val.msg_type # "CertificateVerify"
    THEN Err("InvalidMessageType", "")
    ELSE verify_signature(state, server_messages, server_random, shared_secret,
                          server_verifying_key,
                          handshake_messages \o <<server_messages[3]>>,
                          de_CertificateVerify(cert_verify_msg.val.payload))

\* step 5: parse CertificateVerify
parse_certificate_verify(state, server_messages, server_random, shared_secret, server_verifying_key, handshake_messages, cert_verify_msg) ==
    IF ~cert_verify_msg.ok THEN Err("SerializationError", "")
    ELSE IF cert_verify_msg.val.msg_type # "CertificateVerify"
    THEN Err("InvalidMessageType", "")
    ELSE verify_signature(state, server_messages, server_random, shared_secret,
                          server_verifying_key, handshake_messages,
                          de_CertificateVerify(cert_verify_msg.val.payload))

\* step 4: decode the verifying key
decode_verifying_key(state, server_messages, server_random, shared_secret, handshake_messages, certificate) ==
    IF ~certificate.ok THEN Err("SerializationError", "")
    ELSE IF ~try_into(certificate.val.verifying_key, VK_SIZE)
    THEN Err("HandshakeFailed", "Invalid verifying key format")
    ELSE parse_certificate_verify(state, server_messages, server_random,
                                  shared_secret, certificate.val.verifying_key,
                                  handshake_messages,
                                  deserialize(server_messages[3]))

\* steps 3 and 4: the decapsulation result, then parse Certificate and
\* push it to the transcript
parse_certificate(state, server_messages, server_random, shared_secret, handshake_messages, certificate_msg) ==
    IF ~shared_secret.ok THEN Err("HandshakeFailed", "Decapsulation failed")
    ELSE IF ~certificate_msg.ok THEN Err("SerializationError", "")
    ELSE IF certificate_msg.val.msg_type # "Certificate"
    THEN Err("InvalidMessageType", "")
    ELSE decode_verifying_key(state, server_messages, server_random,
                              shared_secret.val,
                              handshake_messages \o <<server_messages[2]>>,
                              de_Certificate(certificate_msg.val.payload))

\* steps 2 and 3: extract the ML-KEM ciphertext, decapsulate
decapsulate(state, server_messages, server_random, handshake_messages, ciphertext_bytes) ==
    IF ~IsSome(ciphertext_bytes)
    THEN Err("HandshakeFailed", "No key share ciphertext")
    ELSE IF ~try_into(Get(ciphertext_bytes), CT_SIZE)
    THEN Err("HandshakeFailed", "Invalid ciphertext size")
    ELSE parse_certificate(state, server_messages, server_random,
                           Decapsulate(state.decapsulation_key, Get(ciphertext_bytes)),
                           handshake_messages,
                           deserialize(server_messages[2]))

\* step 1: parse ServerHello (its record is pushed to the transcript
\* before its payload is decoded)
parse_server_hello(state, server_messages, handshake_messages, server_hello) ==
    IF ~server_hello.ok THEN Err("SerializationError", "")
    ELSE decapsulate(state, server_messages, server_hello.val.random,
                     handshake_messages,
                     find_map(server_hello.val.extensions, "KeyShareCiphertext"))

\* variant: the type of the first record is not looked at
parse_server_hello_msg_untyped(state, server_messages, server_hello_msg) ==
    IF ~server_hello_msg.ok THEN Err("SerializationError", "")
    ELSE parse_server_hello(state, server_messages,
                            state.handshake_messages \o <<server_messages[1]>>,
                            de_ServerHello(server_hello_msg.val.payload))

parse_server_hello_msg(state, server_messages, server_hello_msg) ==
    IF ~server_hello_msg.ok THEN Err("SerializationError", "")
    ELSE IF server_hello_msg.val.msg_type # "ServerHello"
    THEN Err("InvalidMessageType", "")
    ELSE parse_server_hello(state, server_messages,
                            state.handshake_messages \o <<server_messages[1]>>,
                            de_ServerHello(server_hello_msg.val.payload))

\* variant: the first message is decoded before the messages are counted
complete_handshake_decode_first(state, server_messages) ==
    IF server_messages = <<>>
    THEN Err("HandshakeFailed", "Incomplete server response")
    ELSE IF ~deserialize(server_messages[1]).ok THEN Err("SerializationError", "")
    ELSE IF Len(server_messages) < 4
    THEN Err("HandshakeFailed", "Incomplete server response")
    ELSE parse_server_hello_msg(state, server_messages,
                                deserialize(server_messages[1]))

\* Client::complete_handshake
complete_handshake(state, server_messages) ==
    IF Len(server_messages) < 4
    THEN Err("HandshakeFailed", "Incomplete server response")
    ELSE parse_server_hello_msg(state, server_messages,
                                deserialize(server_messages[1]))

---------------------------------------------------------------------------
(* Sessions (client.rs, server.rs).  send and receive yield the session   *)
(* afterwards and either the record / Some(plaintext) or an error.        *)

\* variant: the cipher after the call is not stored
sent_record_cipher_kept(session, out) ==
    [session |-> session, ok |-> TRUE, err |-> NoError,
     data |-> Record("ApplicationData",
                     ser_ApplicationData([ciphertext |-> out.ciphertext,
                                          nonce |-> out.nonce, tag |-> <<>>]))]

sent_record(session, out) ==
    [session |-> [session EXCEPT !.write_cipher = out.self], ok |-> TRUE,
     err |-> NoError,
     data |-> Record("ApplicationData",
                     ser_ApplicationData([ciphertext |-> out.ciphertext,
                                          nonce |-> out.nonce, tag |-> <<>>]))]

\* variant: the cipher after the call is stored as the write cipher
received_plaintext_on_write(session, out) ==
    IF ~out.ok
    THEN [session |-> session, ok |-> FALSE,
          err |-> Error("CryptoError", out.err), plaintext |-> None]
    ELSE [session |-> [session EXCEPT !.write_cipher = out.self], ok |-> TRUE,
          err |-> NoError, plaintext |-> out.plaintext]

received_plaintext(session, out) ==
    IF ~out.ok
    THEN [session |-> session, ok |-> FALSE,
          err |-> Error("CryptoError", out.err), plaintext |-> None]
    ELSE [session |-> [session EXCEPT !.read_cipher = out.self], ok |-> TRUE,
          err |-> NoError, plaintext |-> out.plaintext]

receive_app_data(session, app_data) ==
    IF ~app_data.ok
    THEN [session |-> session, ok |-> FALSE,
          err |-> Error("SerializationError", ""), plaintext |-> None]
    ELSE received_plaintext(session,
             decrypt(session.read_cipher, app_data.val.ciphertext, app_data.val.nonce))

\* variant: the type of the record is not looked at
receive_msg_any_type(session, msg) ==
    IF ~msg.ok
    THEN [session |-> session, ok |-> FALSE,
          err |-> Error("SerializationError", ""), plaintext |-> None]
    ELSE receive_app_data(session, de_ApplicationData(msg.val.payload))

receive_msg(session, msg) ==
    IF ~msg.ok
    THEN [session |-> session, ok |-> FALSE,
          err |-> Error("SerializationError", ""), plaintext |-> None]
    ELSE IF msg.val.msg_type # "ApplicationData"
    THEN [session |-> session, ok |-> FALSE,
          err |-> Error("InvalidMessageType", ""), plaintext |-> None]
    ELSE receive_app_data(session, de_ApplicationData(msg.val.payload))

\* ClientSession::send, ClientSession::receive
ClientSession_send(session, data) ==
    sent_record(session, encrypt(session.write_cipher, data))
ClientSession_receive(session, data) == receive_msg(session, deserialize(data))

\* ServerSession::send, ServerSession::receive
ServerSession_send(session, data) ==
    sent_record(session, encrypt(session.write_cipher, data))
ServerSession_receive(session, data) == receive_msg(session, deserialize(data))

---------------------------------------------------------------------------
(* The KEM-TLS variant (second/ex2/src/lib.rs).  A record is a type byte, *)
(* a 3-byte big-endian length and the payload; the buffers handed to the  *)
(* functions below consist of whole tokens, so that every slice the code  *)
(* takes falls on token boundaries.  A call yields the object afterwards  *)
(* and what it returned: Ok(val), Err(msg), or a panic, in which case the *)
(* object keeps what was assigned before the panic.                       *)

KEM_TLS_VERSION == 772
CLIENT_HELLO == 1
SERVER_HELLO == 2
FINISHED == 20
APPLICATION_DATA == 23

U24(n) == Mk("u24", n, "", <<>>)

\* Sha256 over the concatenation of everything fed to update()
Sha256(bytes) == Mk("sha256", HASH_SIZE, "", bytes)

KemOk(val) == [kind |-> "Ok", msg |-> "", val |-> val]
KemErr(msg) == [kind |-> "Err", msg |-> msg, val |-> <<>>]
KemPanic(msg) == [kind |-> "panic", msg |-> msg, val |-> <<>>]
Returns(self, result) == [self |-> self, result |-> result]

\* bytes [from, from + n) of a buffer
Slice(toks, from, n) == TakeBytes(TakeBytes(toks, from).rest, n).val

\* derive_keys
derive_keys_from(master) ==
    [client_key |-> Sha256(<<master, Str("client write key")>>),
     server_key |-> Sha256(<<master, Str("server write key")>>)]
derive_keys(shared_secret, context) ==
    derive_keys_from(Sha256(<<Str("KEM-TLS-1.3")>> \o shared_secret \o context))

\* HandshakeMessage::serialize
KemHandshakeMessage_serialize(msg_type, payload) ==
    <<Byte(msg_type), U24(ByteLen(payload))>> \o payload

\* HandshakeMessage::deserialize
KemHandshakeMessage_deserialize(data) ==
    IF ByteLen(data) < 4
    THEN [kind |-> "Err", msg |-> "Message too short", msg_type |-> 0, payload |-> <<>>]
    ELSE IF ByteLen(data) < 4 + data[2].n
    THEN [kind |-> "Err", msg |-> "Incomplete message", msg_type |-> 0, payload |-> <<>>]
    ELSE [kind |-> "Ok", msg |-> "", msg_type |-> data[1].n,
          payload |-> Slice(data, 4, data[2].n)]

\* KemTlsClient::new
KemTlsClient_new(keypair, client_random) ==
    [secret_key |-> keypair, public_key |-> <<EncapsulationKey(keypair)>>,
     client_random |-> client_random, server_random |-> None,
     shared_secret |-> None, client_cipher |-> None, server_cipher |-> None,
     handshake_messages |-> <<>>]

\* KemTlsServer::new
KemTlsServer_new(server_random) ==
    [server_random |-> server_random, client_random |-> None,
     shared_secret |-> None, client_cipher |-> None, server_cipher |-> None,
     handshake_messages |-> <<>>]

client_hello_sent(self, serialized) ==
    Returns([self EXCEPT !.handshake_messages = @ \o serialized], KemOk(serialized))

\* KemTlsClient::generate_client_hello
generate_client_hello(self) ==
    client_hello_sent(self,
        KemHandshakeMessage_serialize(CLIENT_HELLO,
            <<U16(KEM_TLS_VERSION)>> \o self.client_random
            \o <<U16(ByteLen(self.public_key))>> \o self.public_key))

\* the keys are stored
keys_derived(self, shared_secret, keys) ==
    [self EXCEPT !.shared_secret = Some(shared_secret),
                 !.client_cipher = Some(keys.client_key),
                 !.server_cipher = Some(keys.server_key)]

\* variant: a ciphertext of any length is taken
client_decapsulate_any_length(self, server_random, ciphertext_bytes, shared_secret) ==
    Returns(keys_derived(self, shared_secret,
                         derive_keys(shared_secret, self.client_random \o server_random)),
            KemOk(<<>>))

\* Ciphertext::from_bytes, decapsulate, derive_keys
client_decapsulate(self, server_random, ciphertext_bytes, shared_secret) ==
    IF ByteLen(ciphertext_bytes) # CT_SIZE THEN Returns(self, KemErr("Invalid ciphertext"))
    ELSE Returns(keys_derived(self, shared_secret,
                              derive_keys(shared_secret, self.client_random \o server_random)),
                 KemOk(<<>>))

\* the server random is stored; ciphertext length and ciphertext
server_hello_ciphertext(self, payload, server_random) ==
    IF ByteLen(payload) < 36
    THEN Returns(self, KemPanic("index out of bounds"))
    ELSE IF ByteLen(payload) < 36 + Slice(payload, 34, 2)[1].n
    THEN Returns(self, KemErr("ServerHello incomplete"))
    ELSE client_decapsulate(self, server_random,
             Slice(payload, 36, Slice(payload, 34, 2)[1].n),
             Decapsulate(self.secret_key,
                         Slice(payload, 36, Slice(payload, 34, 2)[1].n)).val)

server_hello_payload(self, payload) ==
    IF ByteLen(payload) < 34 THEN Returns(self, KemErr("ServerHello too short"))
    ELSE server_hello_ciphertext(
             [self EXCEPT !.server_random = Some(Slice(payload, 2, 32))],
             payload, Slice(payload, 2, 32))

\* variant: the record joins the transcript once it was accepted
server_hello_checked_first(self, data, msg) ==
    IF msg.kind # "Ok" THEN Returns(self, KemErr(msg.msg))
    ELSE IF msg.msg_type # SERVER_HELLO THEN Returns(self, KemErr("Expected ServerHello"))
    ELSE IF server_hello_payload(self, msg.payload).result.kind # "Ok"
    THEN Returns(self, server_hello_payload(self, msg.payload).result)
    ELSE server_hello_payload([self EXCEPT !.handshake_messages = @ \o data], msg.payload)

server_hello_msg(self, data, msg) ==
    IF msg.kind # "Ok" THEN Returns(self, KemErr(msg.msg))
    ELSE IF msg.msg_type # SERVER_HELLO THEN Returns(self, KemErr("Expected ServerHello"))
    ELSE server_hello_payload([self EXCEPT !.handshake_messages = @ \o data], msg.payload)

\* KemTlsClient::process_server_hello
process_server_hello(self, data) ==
    server_hello_msg(self, data, KemHandshakeMessage_deserialize(data))

\* the verify data of the client's Finished
client_verify_data(shared_secret, handshake_messages) ==
    Sha256(shared_secret \o <<Str("client finished"), Sha256(handshake_messages)>>)

finished_sent(self, serialized) ==
    Returns([self EXCEPT !.handshake_messages = @ \o serialized], KemOk(serialized))

\* KemTlsClient::generate_finished
generate_finished(self) ==
    IF ~IsSome(self.shared_secret)
    THEN Returns(self, KemPanic("unwrap on a None value"))
    ELSE finished_sent(self,
             KemHandshakeMessage_serialize(FINISHED,
                 <<client_verify_data(Get(self.shared_secret), self.handshake_messages)>>))

\* variant: a missing cipher is unwrapped
encrypt_data_unwrap(cipher, plaintext, nonce) ==
    IF ~IsSome(cipher) THEN KemPanic("unwrap on a None value")
    ELSE KemOk(<<Byte(APPLICATION_DATA),
                 U16(ByteLen(nonce) + ByteLen(Aes256Gcm_encrypt(Get(cipher), nonce, plaintext)))>>
               \o nonce \o Aes256Gcm_encrypt(Get(cipher), nonce, plaintext))

\* encrypt_data of both sides, on the own write cipher
encrypt_data(cipher, plaintext, nonce) ==
    IF ~IsSome(cipher) THEN KemErr("Keys not derived yet")
    ELSE KemOk(<<Byte(APPLICATION_DATA),
                 U16(ByteLen(nonce) + ByteLen(Aes256Gcm_encrypt(Get(cipher), nonce, plaintext)))>>
               \o nonce \o Aes256Gcm_encrypt(Get(cipher), nonce, plaintext))

opened(plaintext) ==
    IF plaintext.ok THEN KemOk(plaintext.val) ELSE KemErr("Decryption failed: aead::Error")

application_payload(cipher, payload) ==
    IF ByteLen(payload) < NONCE_SIZE THEN KemErr("Payload too short for nonce")
    ELSE opened(Aes256Gcm_decrypt(cipher, Slice(payload, 0, NONCE_SIZE),
                    Slice(payload, NONCE_SIZE, ByteLen(payload) - NONCE_SIZE)))

\* decrypt_data of both sides, on the peer's write cipher
decrypt_data(cipher, data) ==
    IF ByteLen(data) < 3 \/ data[1] # Byte(APPLICATION_DATA)
    THEN KemErr("Invalid application data")
    ELSE IF ~IsSome(cipher) THEN KemErr("Keys not derived yet")
    ELSE IF ByteLen(data) < 3 + data[2].n THEN KemErr("Incomplete application data")
    ELSE application_payload(Get(cipher), Slice(data, 3, data[2].n))

\* KemTlsClient::encrypt_data, KemTlsClient::decrypt_data
KemTlsClient_encrypt_data(self, plaintext, nonce) ==
    encrypt_data(self.client_cipher, plaintext, nonce)
KemTlsClient_decrypt_data(self, data) == decrypt_data(self.server_cipher, data)

\* KemTlsServer::encrypt_data, KemTlsServer::decrypt_data
KemTlsServer_encrypt_data(self, plaintext, nonce) ==
    encrypt_data(self.server_cipher, plaintext, nonce)
KemTlsServer_decrypt_data(self, data) == decrypt_data(self.client_cipher, data)

server_hello_sent(self, serialized) ==
    Returns([self EXCEPT !.handshake_messages = @ \o serialized], KemOk(serialized))

\* encapsulate, derive_keys, build ServerHello
server_encapsulate(self, client_random, kem) ==
    server_hello_sent(
        keys_derived(self, kem.shared_secret,
                     derive_keys(kem.shared_secret, client_random \o self.server_random)),
        KemHandshakeMessage_serialize(SERVER_HELLO,
            <<U16(KEM_TLS_VERSION)>> \o self.server_random
            \o <<U16(ByteLen(kem.ciphertext))>> \o kem.ciphertext))

\* the client random is stored; key length, key, PublicKey::from_bytes
client_hello_key(self, coins, payload, client_random) ==
    IF ByteLen(payload) < 36
    THEN Returns(self, KemPanic("index out of bounds"))
    ELSE IF ByteLen(payload) < 36 + Slice(payload, 34, 2)[1].n
    THEN Returns(self, KemErr("ClientHello incomplete"))
    ELSE IF Slice(payload, 34, 2)[1].n # EK_SIZE
    THEN Returns(self, KemErr("Invalid public key"))
    ELSE server_encapsulate(self, client_random,
             Encapsulate(Slice(payload, 36, EK_SIZE), coins))

client_hello_payload(self, coins, payload) ==
    IF ByteLen(payload) < 34 THEN Returns(self, KemErr("ClientHello too short"))
    ELSE client_hello_key([self EXCEPT !.client_random = Some(Slice(payload, 2, 32))],
                          coins, payload, Slice(payload, 2, 32))

client_hello_msg(self, coins, data, msg) ==
    IF msg.kind # "Ok" THEN Returns(self, KemErr(msg.msg))
    ELSE IF msg.msg_type # CLIENT_HELLO THEN Returns(self, KemErr("Expected ClientHello"))
    ELSE client_hello_payload([self EXCEPT !.handshake_messages = @ \o data], coins,
                              msg.payload)

\* KemTlsServer::process_client_hello
process_client_hello(self, coins, data) ==
    client_hello_msg(self, coins, data, KemHandshakeMessage_deserialize(data))

\* variant: the hash covers the received Finished as well
finished_compared_whole(self, data, msg) ==
    IF ~IsSome(self.shared_secret)
    THEN Returns(self, KemPanic("unwrap on a None value"))
    ELSE IF msg.payload # <<client_verify_data(Get(self.shared_secret),
                                               self.handshake_messages)>>
    THEN Returns(self, KemErr("Finished verification failed"))
    ELSE Returns(self, KemOk(<<>>))

\* variant: a Finished that does not verify takes the keys away
finished_compared_wiping(self, data, msg) ==
    IF ~IsSome(self.shared_secret)
    THEN Returns(self, KemPanic("unwrap on a None value"))
    ELSE IF msg.payload # <<client_verify_data(Get(self.shared_secret),
                               SubSeq(self.handshake_messages, 1,
                                      Len(self.handshake_messages) - Len(data)))>>
    THEN Returns([self EXCEPT !.shared_secret = None, !.client_cipher = None,
                              !.server_cipher = None],
                 KemErr("Finished verification failed"))
    ELSE Returns(self, KemOk(<<>>))

\* the expected verify data over the transcript without the bytes received
finished_compared(self, data, msg) ==
    IF ~IsSome(self.shared_secret)
    THEN Returns(self, KemPanic("unwrap on a None value"))
    ELSE IF msg.payload # <<client_verify_data(Get(self.shared_secret),
                               SubSeq(self.handshake_messages, 1,
                                      Len(self.handshake_messages) - Len(data)))>>
    THEN Returns(self, KemErr("Finished verification failed"))
    ELSE Returns(self, KemOk(<<>>))

finished_msg(self, data, msg) ==
    IF msg.kind # "Ok" THEN Returns(self, KemErr(msg.msg))
    ELSE IF msg.msg_type # FINISHED THEN Returns(self, KemErr("Expected Finished"))
    ELSE finished_compared([self EXCEPT !.handshake_messages = @ \o data], data, msg)

\* KemTlsServer::verify_finished
KemTlsServer_verify_finished(self, data) ==
    finished_msg(self, data, KemHandshakeMessage_deserialize(data))

---------------------------------------------------------------------------
(* Peers and network.  The client and the server are the code above; the  *)
(* network delivers what was sent, or what an attacker makes of it.       *)

\* configurations the two peers are constructed with
ClientSuiteLists ==
    {<<MlKem768MlDsa65Aes256Gcm>>, <<MlKem512MlDsa44Aes256Gcm>>,
     <<MlKem512MlDsa44Aes256Gcm, MlKem768MlDsa65Aes256Gcm>>}
ServerSuiteLists ==
    {<<MlKem768MlDsa65Aes256Gcm>>,
     <<MlKem768MlDsa65Aes256Gcm, MlKem512MlDsa44Aes256Gcm>>,
     <<MlKem1024MlDsa87Aes256Gcm, MlKem768MlDsa65Aes256Gcm,
       MlKem512MlDsa44Aes256Gcm>>,
     <<MlKem1024MlDsa87Aes256Gcm>>}
HostName == Mk("str", 11, "example.com", <<>>)
ServerNames == {None, Some(<<HostName>>)}

ClientConfig == [cipher_suites : ClientSuiteLists, server_name : ServerNames]
ServerConfig == [cipher_suites : ServerSuiteLists]

\* what OsRng yields during one call
ClientRng == [kem_keypair |-> Honest,
              client_random |-> <<Rand(HASH_SIZE, "client_random")>>]
ServerRng == [coins |-> Rand(HASH_SIZE, "coins"),
              server_random |-> <<Rand(HASH_SIZE, "server_random")>>]
ForeignRng == [coins |-> Rand(HASH_SIZE, "foreign_coins"),
               server_random |-> <<Rand(HASH_SIZE, "foreign_random")>>]

\* a ClientHello record somebody else builds
ForeignHello(cipher_suites, extensions) ==
    Record("ClientHello", ser_ClientHello(
        [version |-> PQ_TLS_VERSION,
         random |-> <<Rand(HASH_SIZE, "foreign_client_random")>>,
         cipher_suites |-> cipher_suites, extensions |-> extensions]))

\* byte strings that reach Server::handshake without coming from the client
ForeignHellos ==
    {ForeignHello(<<MlKem768MlDsa65Aes256Gcm>>,
                  <<Extension("KeyShare", <<EncapsulationKey(Other)>>)>>),
     ForeignHello(<<MlKem512MlDsa44Aes256Gcm>>,
                  <<Extension("KeyShare", <<EncapsulationKey(Other)>>)>>),
     ForeignHello(<<MlKem768MlDsa65Aes256Gcm>>,
                  <<Extension("SupportedVersions", <<U16(PQ_TLS_VERSION)>>)>>),
     ForeignHello(<<MlKem768MlDsa65Aes256Gcm>>,
                  <<Extension("KeyShare", <<Rand(EK_SIZE - 1, "short_key")>>)>>),
     Record("ServerHello", <<Rand(HASH_SIZE, "payload")>>),
     Record("ClientHello", <<Rand(1, "payload")>>),
     <<U32(0)>>,
     <<>>}

ServerInputs(sent) == {sent[i] : i \in 1..Len(sent)} \cup ForeignHellos

\* how an attacker on the way from server to client replaces a field:
\* ct, vk, sig name the replacement of the KEM ciphertext, of the
\* certificate key and of the signature bytes ("keep": untouched), fin
\* what the Finished record carries; shape names a change to the list of
\* messages
UnrelatedCt == {"other_coins", "other_key", "random"}
UnrelatedVk == {"other", "random"}
UnrelatedSig == {"other_signer", "other_message", "random"}
\* the server's own signature, made over a shorter or a longer transcript
MisboundSig == {"signed_early", "signed_late"}
FinishedContents == {"keep", "other_mac", "junk"}
Untouched == [ct |-> "keep", vk |-> "keep", sig |-> "keep", fin |-> "keep", shape |-> <<"keep", 0>>]
Shapes ==
    ({"drop_last", "empty", "extra", "swapped"} \X {0})
    \cup ({"truncated", "retagged"} \X (1..4))
    \cup ({"junk"} \X (1..3))
Tampers ==
    [ct : {"keep"} \cup UnrelatedCt, vk : {"keep"} \cup UnrelatedVk,
     sig : {"keep", "adaptive"} \cup UnrelatedSig \cup MisboundSig,
     fin : FinishedContents, shape : {<<"keep", 0>>}]
    \cup [ct : {"keep"}, vk : {"keep"} \cup UnrelatedVk,
          sig : {"keep"} \cup UnrelatedSig, fin : FinishedContents,
          shape : {<<"no_key_share", 0>>}]
    \cup [ct : {"keep"}, vk : {"keep"}, sig : {"keep"}, fin : {"keep"},
          shape : Shapes]

NewCt(kind) ==
    CASE kind = "other_coins" ->
             Encapsulate(<<EncapsulationKey(Honest)>>,
                         Rand(HASH_SIZE, "attacker_coins")).ciphertext[1]
      [] kind = "other_key" ->
             Encapsulate(<<EncapsulationKey(Other)>>,
                         Rand(HASH_SIZE, "attacker_coins")).ciphertext[1]
      [] OTHER -> Rand(CT_SIZE, "random_ct")

NewVk(kind) ==
    IF kind = "other" THEN VerifyingKey(Other) ELSE Rand(VK_SIZE, "random_vk")

\* "adaptive": the attacker signs, with a key of their own, the transcript
\* the client will see
NewSig(kind, transcript) ==
    CASE kind = "other_signer" -> Sign(Other, Sha3_256(<<Str("unrelated")>>))
      [] kind = "other_message" -> Sign(Honest, Sha3_256(<<Str("unrelated")>>))
      [] kind = "adaptive" -> Sign(Other, Sha3_256(Concat(transcript)))
      [] kind = "signed_early" ->
             Sign(Honest, Sha3_256(Concat(SubSeq(transcript, 1, 2))))
      [] kind = "signed_late" ->
             Sign(Honest, Sha3_256(Concat(transcript \o
                 <<Record("CertificateVerify", ser_CertificateVerify([signature |->
                     <<Sign(Honest, Sha3_256(Concat(transcript)))>>]))>>)))
      [] OTHER -> Rand(SIG_SIZE, "random_sig")

\* the Finished record as delivered: the server's, one with another MAC of
\* the right length, or bytes that are no record
NewFinished(kind, finished_data) ==
    CASE kind = "other_mac" ->
             Record("Finished", ser_Finished([verify_data |->
                 <<Sha3_256(<<Str("unrelated")>>)>>]))
      [] kind = "junk" -> <<Rand(HASH_SIZE, "junk")>>
      [] OTHER -> finished_data

\* overwrite the bytes of the field of kind t in one record
Overwrite(msg, t, kind, new) ==
    IF kind = "keep" THEN msg
    ELSE [i \in 1..Len(msg) |-> IF msg[i].t = t THEN new ELSE msg[i]]

\* a ServerHello like the given one whose only extension is no key share
NoKeyShare(server_hello_data) ==
    Record("ServerHello", ser_ServerHello(
        [de_ServerHello(Tail(Tail(server_hello_data))).val
            EXCEPT !.extensions =
                <<Extension("SupportedVersions", <<U16(PQ_TLS_VERSION)>>)>>]))

Reshape(shape, msgs) ==
    CASE shape[1] = "drop_last" -> SubSeq(msgs, 1, 3)
      [] shape[1] = "empty" -> <<>>
      [] shape[1] = "extra" -> msgs \o <<msgs[4]>>
      [] shape[1] = "swapped" -> <<msgs[2], msgs[1], msgs[3], msgs[4]>>
      [] shape[1] = "truncated" ->
             [i \in 1..4 |-> IF i = shape[2] THEN <<Head(msgs[i])>> ELSE msgs[i]]
      [] shape[1] = "junk" -> [i \in 1..shape[2] |-> <<Rand(i, "junk")>>]
      [] shape[1] = "no_key_share" ->
             <<NoKeyShare(msgs[1]), msgs[2], msgs[3], msgs[4]>>
      [] shape[1] = "retagged" ->
             [i \in 1..4 |-> IF i = shape[2] THEN <<U32(5)>> \o Tail(msgs[i])
                             ELSE msgs[i]]
      [] OTHER -> msgs

Resign(d, client_hello_data, msgs) ==
    Reshape(d.shape,
        <<msgs[1], msgs[2],
          Overwrite(msgs[3], "sig", d.sig,
                    NewSig(d.sig, <<client_hello_data, msgs[1], msgs[2]>>)),
          NewFinished(d.fin, msgs[4])>>)

\* what reaches the client of the server's four messages under d
Delivered(d, client_hello_data, msgs) ==
    Resign(d, client_hello_data,
        <<Overwrite(msgs[1], "ct", d.ct, NewCt(d.ct)),
          Overwrite(msgs[2], "vk", d.vk, NewVk(d.vk)), msgs[3], msgs[4]>>)

\* the messages a result of Server::handshake hands to the network
Outbound(from, result) ==
    IF IsSome(result) /\ Get(result).ok
    THEN {[from |-> from, choice |-> <<>>,
           msgs |-> Get(Get(result).session).handshake_messages]}
    ELSE {}

\* somebody else's server answering the client's hello
ForeignServer(client_hello_data) ==
    Some(handshake(Server_new([cipher_suites |-> <<MlKem768MlDsa65Aes256Gcm>>], Other),
                   ForeignRng, client_hello_data))

\* versions and cipher suites a server may put into its ServerHello
HelloVersions == {PQ_TLS_VERSION, 771}
HelloChoices == HelloVersions \X CipherSuite

\* the rest of Server::handshake run over a ServerHello of one's own
RogueAnswer(client_hello_data, client_hello, choice, kem) ==
    send_certificate(Server_new([cipher_suites |-> <<choice[2]>>], Other), ForeignRng,
        client_hello, kem.shared_secret,
        <<client_hello_data,
          Record("ServerHello", ser_ServerHello(
              [version |-> choice[1], random |-> ForeignRng.server_random,
               cipher_suite |-> choice[2],
               extensions |-> <<Extension("KeyShareCiphertext", kem.ciphertext)>>]))>>)

\* somebody else's server that answers the client's hello with the version
\* and the cipher suite it likes, whatever the client offered, and then
\* signs and MACs as Server::handshake does
RogueServer(client_hello_data, choice) ==
    Some(RogueAnswer(client_hello_data, de_ClientHello(Tail(Tail(client_hello_data))).val,
                     choice, Encapsulate(<<EncapsulationKey(ClientRng.kem_keypair)>>, ForeignRng.coins)))

RogueOutbound(choice, result) ==
    {[from |-> "rogue", choice |-> choice,
      msgs |-> Get(Get(result).session).handshake_messages]}

---------------------------------------------------------------------------
(* One client and one server, one handshake attempt.                      *)

VARIABLES client_config, server_config, hs_state, client_hello_out, server_in, server_result, client_in, client_result, cipher, nonces, last_out, decrypt_out, reader, reader_log, call, returned, sessions, wire, received, deliveries, life, kem

hs_vars == <<client_config, server_config, hs_state, client_hello_out, server_in, server_result, client_in, client_result>>

\* a TrafficCipher on its own: the instance, the nonces its encrypt calls
\* returned, the latest (plaintext, ciphertext, nonce), and what decrypting
\* that record gave; a second instance with the same key and IV that
\* lives on across calls, and the outcome (TRUE for Ok) of each call on it;
\* whether the build checks integer overflow, whether a call panicked, and
\* how often the sequence number of the instance went past its maximum
cipher_vars == <<cipher, nonces, last_out, decrypt_out, reader, reader_log, life>>

\* one call of a function on an argument, and what it returned
call_vars == <<call, returned>>

\* a ClientSession and a ServerSession, the records their send calls put on
\* the wire, what the latest receive call returned, and for every receive
\* call so far who made it, on which record, and whether it returned Ok
session_vars == <<sessions, wire, received, deliveries>>

\* the KEM-TLS variant: a KemTlsClient and a KemTlsServer, the latest
\* message of each kind either of them returned, what the latest call
\* returned, for each object the calls that changed it, and the objects a
\* panic happened in
kem_vars == <<kem>>

vars == <<hs_vars, cipher_vars, call_vars, session_vars, kem_vars>>

NoCipher ==
    /\ cipher = None
    /\ nonces = <<>>
    /\ last_out = None
    /\ decrypt_out = None
    /\ reader = None
    /\ reader_log = <<>>
    /\ life = [overflow_checks |-> FALSE, panicked |-> FALSE, wraps |-> 0]

NoCall ==
    /\ call = None
    /\ returned = None

NoKem == kem = None

NoSession ==
    /\ sessions = None
    /\ wire = <<>>
    /\ received = None
    /\ deliveries = <<>>

Init ==
    /\ client_config \in ClientConfig
    /\ server_config \in ServerConfig
    /\ hs_state = None
    /\ client_hello_out = None
    /\ server_in = None
    /\ server_result = None
    /\ client_in = None
    /\ client_result = None
    /\ NoCipher
    /\ NoCall
    /\ NoSession
    /\ NoKem

Started(started) ==
    /\ hs_state' = Some(started.state)
    /\ client_hello_out' = Some(started.client_hello_data)

\* client.start_handshake()
ClientStart ==
    /\ client_hello_out = None
    /\ Started(start_handshake(client_config, ClientRng.kem_keypair,
                               ClientRng.client_random))
    /\ UNCHANGED <<client_config, server_config, server_in, server_result,
                   client_in, client_result, cipher_vars, call_vars, session_vars, kem_vars>>

\* server.handshake(client_hello_data)
ServerHandshake ==
    /\ server_result = None
    /\ \E client_hello_data \in ServerInputs(client_hello_out) :
          /\ server_in' = Some(client_hello_data)
          /\ server_result' = Some(handshake(Server_new(server_config, Honest),
                                             ServerRng, client_hello_data))
    /\ UNCHANGED <<client_config, server_config, hs_state, client_hello_out,
                   client_in, client_result, cipher_vars, call_vars, session_vars, kem_vars>>

\* variant: the state is passed by reference and stays with the caller
borrowed(state) == state

\* the ClientHandshakeState is passed by value: the caller's binding is
\* moved out of
moved(state) == None

Completing(base, d) ==
    /\ client_in' = Some([from |-> base.from, tamper |-> d, choice |-> base.choice])
    /\ client_result' = Some(complete_handshake(Get(hs_state),
                                 Delivered(d, Get(client_hello_out), base.msgs)))
    /\ hs_state' = moved(hs_state)

\* client.complete_handshake(state, server_messages)
ClientComplete ==
    /\ IsSome(hs_state)
    /\ \E base \in Outbound("server", server_result)
                   \cup Outbound("foreign", ForeignServer(Get(client_hello_out)))
                   \cup UNION {RogueOutbound(choice,
                                   RogueServer(Get(client_hello_out), choice)) :
                                       choice \in HelloChoices} :
          \E d \in IF base.from = "server" THEN Tampers ELSE {Untouched} :
              Completing(base, d)
    /\ UNCHANGED <<client_config, server_config, client_hello_out, server_in,
                   server_result, cipher_vars, call_vars, session_vars, kem_vars>>

Next == ClientStart \/ ServerHandshake \/ ClientComplete

Spec == Init /\ [][Next]_vars

---------------------------------------------------------------------------
(* One TrafficCipher used for encryption, and fresh ones of the same or   *)
(* of another key that decrypt its latest record.                         *)

MaxLen == 2
MaxSeq == 3
MaxCalls == 3

PlainBytes == {Byte(0), Byte(97)}
Plaintexts == UNION {[1..n -> PlainBytes] : n \in 0..MaxLen}

CipherKey == Rand(HASH_SIZE, "key")
OtherKey == Rand(HASH_SIZE, "other_key")
CipherIVs ==
    {[i \in 1..NONCE_SIZE |-> Byte(0)],
     [i \in 1..NONCE_SIZE |-> Byte(17 * i)],
     derive_client_write_iv(KeySchedule_new(<<Mk("ss", 0, "", <<>>)>>))}

\* what happens to a record between encrypt and decrypt
CipherTampers(ciphertext) ==
    ({"none", "wrong_key", "short_nonce", "other_nonce", "no_tag", "long_nonce",
      "short_sealed", "long_sealed"} \X {0})
    \cup ({"flip"} \X (1..ByteLen(ciphertext)))

\* byte k of the ciphertext changed
FlipAt(ciphertext, k) ==
    [j \in 1..Len(ciphertext) |->
        IF j < Len(ciphertext)
        THEN (IF j = k THEN Mk("flipped", 1, "", <<ciphertext[j]>>) ELSE ciphertext[j])
        ELSE (IF k >= j THEN Mk("flipped", TAG_SIZE, "", <<ciphertext[j], U64(k - j)>>)
              ELSE ciphertext[j])]

TamperedCiphertext(t, ciphertext) ==
    CASE t[1] = "flip" -> FlipAt(ciphertext, t[2])
      [] t[1] = "no_tag" -> SubSeq(ciphertext, 1, Len(ciphertext) - 1)
      [] OTHER -> ciphertext

TamperedNonce(t, nonce) ==
    CASE t[1] \in {"short_nonce", "short_sealed"} -> Tail(nonce)
      [] t[1] \in {"long_nonce", "long_sealed"} -> nonce \o <<Byte(0)>>
      [] t[1] = "other_nonce" -> <<Mk("flipped", 1, "", <<nonce[1]>>)>> \o Tail(nonce)
      [] OTHER -> nonce

\* the ciphertext that reaches decrypt; "sealed": the plaintext encrypted
\* once more under the nonce of another length that comes with it
Sealed(t, out) ==
    IF t[1] \in {"short_sealed", "long_sealed"}
    THEN Aes256Gcm_encrypt(CipherKey, TamperedNonce(t, out.nonce), out.plaintext)
    ELSE TamperedCiphertext(t, out.ciphertext)

InitCipher ==
    /\ client_config = [cipher_suites |-> <<MlKem768MlDsa65Aes256Gcm>>,
                        server_name |-> None]
    /\ server_config = [cipher_suites |-> <<MlKem768MlDsa65Aes256Gcm>>]
    /\ hs_state = None
    /\ client_hello_out = None
    /\ server_in = None
    /\ server_result = None
    /\ client_in = None
    /\ client_result = None
    /\ NoCipher
    /\ NoCall
    /\ NoSession
    /\ NoKem

\* TrafficCipher::new(key, iv)
CipherNew ==
    /\ cipher = None
    /\ \E iv \in CipherIVs :
          /\ cipher' = Some(TrafficCipher_new(CipherKey, iv))
          /\ reader' = Some(TrafficCipher_new(CipherKey, iv))
    /\ UNCHANGED <<hs_vars, call_vars, session_vars, kem_vars, nonces, last_out, decrypt_out, reader_log, life>>

Encrypted(plaintext, out) ==
    /\ cipher' = Some(out.self)
    /\ nonces' = Append(nonces, out.nonce)
    /\ last_out' = Some([plaintext |-> plaintext, ciphertext |-> out.ciphertext,
                         nonce |-> out.nonce])
    /\ decrypt_out' = None

\* cipher.encrypt(plaintext)
CipherEncrypt ==
    /\ IsSome(cipher)
    /\ Get(cipher).sequence_number < MaxSeq
    /\ \E plaintext \in Plaintexts : Encrypted(plaintext, encrypt(Get(cipher), plaintext))
    /\ UNCHANGED <<hs_vars, call_vars, session_vars, kem_vars, reader, reader_log, life>>

\* TrafficCipher::new(key, iv).decrypt(ciphertext, nonce) on the latest record
CipherDecrypt ==
    /\ IsSome(last_out)
    /\ \E t \in CipherTampers(Get(last_out).ciphertext) :
          decrypt_out' =
              Some([tamper |-> t,
                    result |-> decrypt(
                        TrafficCipher_new(IF t[1] = "wrong_key" THEN OtherKey
                                          ELSE CipherKey, Get(cipher).iv),
                        Sealed(t, Get(last_out)),
                        TamperedNonce(t, Get(last_out).nonce))])
    /\ UNCHANGED <<hs_vars, call_vars, session_vars, kem_vars, cipher, nonces, last_out, reader, reader_log, life>>

ReaderCalled(out) ==
    /\ reader' = Some(out.self)
    /\ reader_log' = Append(reader_log, out.ok)

\* reader.decrypt(ciphertext, nonce) on the latest record, as sent or changed
ReaderDecrypt ==
    /\ IsSome(last_out)
    /\ Len(reader_log) < MaxCalls
    /\ \E t \in CipherTampers(Get(last_out).ciphertext) \ {<<"wrong_key", 0>>} :
          ReaderCalled(decrypt(Get(reader),
                               Sealed(t, Get(last_out)),
                               TamperedNonce(t, Get(last_out).nonce)))
    /\ UNCHANGED <<hs_vars, call_vars, session_vars, kem_vars, cipher, nonces, last_out, decrypt_out, life>>

\* reader.encrypt(plaintext); the record is dropped
ReaderEncrypt ==
    /\ IsSome(reader)
    /\ Len(reader_log) < MaxCalls
    /\ ReaderCalled(encrypt(Get(reader), <<>>))
    /\ UNCHANGED <<hs_vars, call_vars, session_vars, kem_vars, cipher, nonces, last_out, decrypt_out, life>>

NextCipher == CipherNew \/ CipherEncrypt \/ CipherDecrypt

SpecCipher == InitCipher /\ [][NextCipher]_vars

\* a writer and a reader that lives on across calls
NextReader == CipherNew \/ CipherEncrypt \/ ReaderDecrypt \/ ReaderEncrypt

SpecReader == InitCipher /\ [][NextReader]_vars

---------------------------------------------------------------------------
(* A TrafficCipher at the end of its sequence numbers: the instance makes *)
(* a few calls, then all but a few of the 2^64 calls its counter can      *)
(* count, then the calls that take the counter past u64::MAX.  What       *)
(* `self.sequence_number += 1` does at u64::MAX depends on the build:     *)
(* with overflow checks (the dev profile) it panics, without (the release *)
(* profile) it wraps to 0.                                                *)

MaxWrap == 2

InitWrap ==
    /\ client_config = [cipher_suites |-> <<MlKem768MlDsa65Aes256Gcm>>,
                        server_name |-> None]
    /\ server_config = [cipher_suites |-> <<MlKem768MlDsa65Aes256Gcm>>]
    /\ hs_state = None
    /\ client_hello_out = None
    /\ server_in = None
    /\ server_result = None
    /\ client_in = None
    /\ client_result = None
    /\ cipher = None
    /\ nonces = <<>>
    /\ last_out = None
    /\ decrypt_out = None
    /\ reader = None
    /\ reader_log = <<>>
    /\ life \in [overflow_checks : BOOLEAN, panicked : {FALSE}, wraps : {0}]
    /\ NoCall
    /\ NoSession
    /\ NoKem

\* self.sequence_number += 1 overflows
Overflows(self) == self.sequence_number = U64_MAX

\* the call unwinds at the increment: nothing is returned, the instance
\* keeps its sequence number
Panicked ==
    /\ life' = [life EXCEPT !.panicked = TRUE]
    /\ UNCHANGED <<cipher, nonces, last_out, decrypt_out>>

Counted(self) ==
    life' = [life EXCEPT !.wraps = IF Overflows(self) THEN @ + 1 ELSE @]

\* TrafficCipher::new(key, iv)
WrapNew ==
    /\ cipher = None
    /\ \E iv \in CipherIVs : cipher' = Some(TrafficCipher_new(CipherKey, iv))
    /\ UNCHANGED <<hs_vars, call_vars, session_vars, kem_vars, nonces, last_out, decrypt_out, reader, reader_log, life>>

\* cipher.encrypt(plaintext)
WrapEncrypt ==
    /\ IsSome(cipher)
    /\ ~life.panicked
    /\ Get(cipher).sequence_number < MaxWrap
    /\ IF Overflows(Get(cipher)) /\ life.overflow_checks
       THEN Panicked
       ELSE /\ \E plaintext \in {<<>>, <<Byte(97)>>} :
                  Encrypted(plaintext, encrypt(Get(cipher), plaintext))
            /\ Counted(Get(cipher))
    /\ UNCHANGED <<hs_vars, call_vars, session_vars, kem_vars, reader, reader_log>>

WrapDecrypted(t, out) ==
    IF out.ok /\ Overflows(Get(cipher)) /\ life.overflow_checks
    THEN Panicked
    ELSE /\ cipher' = Some(out.self)
         /\ decrypt_out' = Some([tamper |-> t, result |-> out])
         /\ IF out.ok THEN Counted(Get(cipher)) ELSE life' = life
         /\ UNCHANGED <<nonces, last_out>>

\* cipher.decrypt(ciphertext, nonce) on the latest record, as it is or
\* with its first byte changed
WrapDecrypt ==
    /\ IsSome(last_out)
    /\ ~life.panicked
    /\ Get(cipher).sequence_number < MaxWrap
    /\ \E t \in {<<"none", 0>>, <<"flip", 1>>} :
          WrapDecrypted(t, decrypt(Get(cipher), TamperedCiphertext(t, Get(last_out).ciphertext),
                                   Get(last_out).nonce))
    /\ UNCHANGED <<hs_vars, call_vars, session_vars, kem_vars, reader, reader_log>>

\* the calls in between, none of them kept: the instance makes successful
\* calls until all but d of its 2^64 sequence numbers are used
WrapRun ==
    /\ IsSome(cipher)
    /\ Get(cipher).sequence_number >= 0
    /\ life.wraps = 0
    /\ \E d \in 1..MaxWrap :
          cipher' = Some([Get(cipher) EXCEPT !.sequence_number = U64_MAX - (d - 1)])
    /\ UNCHANGED <<hs_vars, call_vars, session_vars, kem_vars, nonces, last_out, decrypt_out, reader, reader_log, life>>

NextWrap == WrapNew \/ WrapEncrypt \/ WrapDecrypt \/ WrapRun

SpecWrap == InitWrap /\ [][NextWrap]_vars

---------------------------------------------------------------------------
(* One KemTlsClient and one KemTlsServer.  Any public function may be     *)
(* called at any time, on what the peer sent or on bytes of somebody's    *)
(* making; a panic ends the life of the object it happened in.            *)

MaxKemCalls == 6
MaxForged == 1

InitKem ==
    /\ client_config = [cipher_suites |-> <<MlKem768MlDsa65Aes256Gcm>>,
                        server_name |-> None]
    /\ server_config = [cipher_suites |-> <<MlKem768MlDsa65Aes256Gcm>>]
    /\ hs_state = None
    /\ client_hello_out = None
    /\ server_in = None
    /\ server_result = None
    /\ client_in = None
    /\ client_result = None
    /\ NoCipher
    /\ NoCall
    /\ sessions = None
    /\ wire = <<>>
    /\ received = None
    /\ deliveries = <<>>
    /\ kem = [client |-> KemTlsClient_new(Honest, <<Rand(HASH_SIZE, "kem_client_random")>>),
              server |-> KemTlsServer_new(<<Rand(HASH_SIZE, "kem_server_random")>>),
              client_hello |-> None, server_hello |-> None, finished |-> None,
              client_record |-> None, server_record |-> None,
              result |-> None, log |-> [client |-> <<>>, server |-> <<>>],
              dead |-> {}]

\* a hello payload made by somebody else
ForgedHello(kind) ==
    CASE kind = "short" -> <<U16(KEM_TLS_VERSION), Rand(16, "forged")>>
      [] kind = "edge" -> <<U16(KEM_TLS_VERSION), Rand(HASH_SIZE, "forged")>>
      [] OTHER ->
             <<U16(KEM_TLS_VERSION), Rand(HASH_SIZE, "forged"), U16(8), Rand(8, "forged")>>

\* buffers of somebody else's making: a record of the given type with a
\* hello payload that is too short, ends where the length field begins,
\* or holds a key or ciphertext of a wrong length; a hello under another
\* type
Forged(msg_type) ==
    {<<kind, KemHandshakeMessage_serialize(msg_type, ForgedHello(kind))>> :
        kind \in {"short", "edge", "wrong_length"}}
    \cup {<<"retyped", KemHandshakeMessage_serialize(APPLICATION_DATA, ForgedHello("short"))>>}

\* what a side may be handed: the peer's latest message, or a forged one
Inputs(slot, forged) ==
    (IF IsSome(kem[slot]) THEN {<<slot, Get(kem[slot])>>} ELSE {}) \cup forged

FinishedInputs ==
    Inputs("finished",
           {<<"wrong_mac", KemHandshakeMessage_serialize(FINISHED, <<Sha256(<<Str("forged")>>)>>)>>,
            <<"retyped", KemHandshakeMessage_serialize(APPLICATION_DATA, <<Sha256(<<Str("forged")>>)>>)>>,
            <<"cut", <<Byte(FINISHED)>>>>})

\* what decrypt_data may be handed: the peer's latest record, or less than
\* a header
RecordInputs(slot) == Inputs(slot, {<<"cut", <<Byte(APPLICATION_DATA)>>>>})

Forgeries(log) == Len(SelectSeq(log.client \o log.server, LAMBDA e : e.input \in {"short", "edge", "wrong_length", "retyped", "cut", "wrong_mac"}))
KemCalls(log) == Len(log.client) + Len(log.server)

\* a call that changes the object: the object afterwards, the bytes it
\* returned (kept for the peer), and an entry in the log of calls
KemCalled(who, op, input, out, slot) ==
    /\ kem' = [kem EXCEPT ![who] = out.self,
                          ![slot] = IF out.result.kind = "Ok" /\ slot # "result"
                                    THEN Some(out.result.val) ELSE @,
                          !.result = Some([who |-> who, op |-> op, input |-> input,
                                           kind |-> out.result.kind, msg |-> out.result.msg,
                                           val |-> out.result.val]),
                          !.log[who] = Append(@, [op |-> op, input |-> input[1],
                                                  kind |-> out.result.kind,
                                                  msg |-> out.result.msg]),
                          !.dead = IF out.result.kind = "panic" THEN @ \cup {who} ELSE @]
    /\ Forgeries(kem'.log) <= MaxForged

\* a call that leaves the object as it is
KemAsked(who, op, input, result, slot) ==
    kem' = [kem EXCEPT ![slot] = IF result.kind = "Ok" /\ slot # "result"
                                 THEN Some(result.val) ELSE @,
                       !.result = Some([who |-> who, op |-> op, input |-> input,
                                        kind |-> result.kind, msg |-> result.msg,
                                        val |-> result.val]),
                       !.dead = IF result.kind = "panic" THEN @ \cup {who} ELSE @]

\* client.generate_client_hello()
KemGenerateClientHello ==
    /\ "client" \notin kem.dead
    /\ kem.client_hello = None
    /\ KemCalls(kem.log) < MaxKemCalls
    /\ KemCalled("client", "generate_client_hello", <<"none", <<>>>>,
                 generate_client_hello(kem.client), "client_hello")
    /\ UNCHANGED <<hs_vars, cipher_vars, call_vars, session_vars>>

\* server.process_client_hello(data)
KemProcessClientHello ==
    /\ "server" \notin kem.dead
    /\ KemCalls(kem.log) < MaxKemCalls
    /\ \E input \in Inputs("client_hello", Forged(CLIENT_HELLO)) :
          KemCalled("server", "process_client_hello", input,
                    process_client_hello(kem.server,
                        Mk("rand", HASH_SIZE, "kem_coins", <<U64(Len(kem.log.server))>>), input[2]),
                    "server_hello")
    /\ UNCHANGED <<hs_vars, cipher_vars, call_vars, session_vars>>

\* client.process_server_hello(data)
KemProcessServerHello ==
    /\ "client" \notin kem.dead
    /\ KemCalls(kem.log) < MaxKemCalls
    /\ \E input \in Inputs("server_hello", Forged(SERVER_HELLO)) :
          KemCalled("client", "process_server_hello", input,
                    process_server_hello(kem.client, input[2]), "result")
    /\ UNCHANGED <<hs_vars, cipher_vars, call_vars, session_vars>>

\* client.generate_finished()
KemGenerateFinished ==
    /\ "client" \notin kem.dead
    /\ kem.finished = None
    /\ KemCalls(kem.log) < MaxKemCalls
    /\ KemCalled("client", "generate_finished", <<"none", <<>>>>,
                 generate_finished(kem.client), "finished")
    /\ UNCHANGED <<hs_vars, cipher_vars, call_vars, session_vars>>

\* server.verify_finished(data)
KemVerifyFinished ==
    /\ "server" \notin kem.dead
    /\ KemCalls(kem.log) < MaxKemCalls
    /\ \E input \in FinishedInputs :
          KemCalled("server", "verify_finished", input,
                    KemTlsServer_verify_finished(kem.server, input[2]), "result")
    /\ UNCHANGED <<hs_vars, cipher_vars, call_vars, session_vars>>

\* client.encrypt_data(plaintext)
KemClientEncrypt ==
    /\ "client" \notin kem.dead
    /\ kem.client_record = None
    /\ KemAsked("client", "encrypt_data", <<"none", <<Byte(97)>>>>,
                KemTlsClient_encrypt_data(kem.client, <<Byte(97)>>,
                                          <<Rand(NONCE_SIZE, "client_nonce")>>),
                "client_record")
    /\ UNCHANGED <<hs_vars, cipher_vars, call_vars, session_vars>>

\* server.encrypt_data(plaintext)
KemServerEncrypt ==
    /\ "server" \notin kem.dead
    /\ kem.server_record = None
    /\ KemAsked("server", "encrypt_data", <<"none", <<Byte(98)>>>>,
                KemTlsServer_encrypt_data(kem.server, <<Byte(98)>>,
                                          <<Rand(NONCE_SIZE, "server_nonce")>>),
                "server_record")
    /\ UNCHANGED <<hs_vars, cipher_vars, call_vars, session_vars>>

\* client.decrypt_data(data)
KemClientDecrypt ==
    /\ "client" \notin kem.dead
    /\ \E input \in RecordInputs("server_record") :
          KemAsked("client", "decrypt_data", input,
                   KemTlsClient_decrypt_data(kem.client, input[2]), "result")
    /\ UNCHANGED <<hs_vars, cipher_vars, call_vars, session_vars>>

\* server.decrypt_data(data)
KemServerDecrypt ==
    /\ "server" \notin kem.dead
    /\ \E input \in RecordInputs("client_record") :
          KemAsked("server", "decrypt_data", input,
                   KemTlsServer_decrypt_data(kem.server, input[2]), "result")
    /\ UNCHANGED <<hs_vars, cipher_vars, call_vars, session_vars>>

NextKem ==
    \/ KemGenerateClientHello
    \/ KemProcessClientHello
    \/ KemProcessServerHello
    \/ KemGenerateFinished
    \/ KemVerifyFinished
    \/ KemClientEncrypt
    \/ KemServerEncrypt
    \/ KemClientDecrypt
    \/ KemServerDecrypt

SpecKem == InitKem /\ [][NextKem]_vars

---------------------------------------------------------------------------
(* Single calls: one function applied to one argument drawn from a        *)
(* bounded set of records and of buffers that are not well-formed.        *)

CallConfig == [cipher_suites |-> <<MlKem768MlDsa65Aes256Gcm>>]

\* the client that started one handshake, and the server's answer to it
CallStarted ==
    start_handshake([cipher_suites |-> CallConfig.cipher_suites, server_name |-> None],
                    ClientRng.kem_keypair, ClientRng.client_random)

CallServer ==
    handshake(Server_new(CallConfig, Honest), ServerRng, CallStarted.client_hello_data)

ServerMessages ==
    IF CallServer.ok THEN Get(CallServer.session).handshake_messages ELSE <<>>

\* two sessions over the same shared secret (all their fields are public)
CallKeys == KeySchedule_new(<<Mk("ss", 0, "", <<>>)>>)

CallServerSession ==
    Get(create_session(ServerRng, [random |-> ClientRng.client_random], CallKeys,
                       <<CallStarted.client_hello_data>>).session)

CallClientSession ==
    Get(client_session(CallStarted.state, ServerRng.server_random,
                       <<VerifyingKey(Honest)>>, CallKeys, <<>>).session)

\* the records each step expects
ExpectedRecords ==
    [handshake |-> <<CallStarted.client_hello_data>>,
     complete_handshake |-> ServerMessages,
     server_receive |-> <<ClientSession_send(CallClientSession, <<Byte(97)>>).data>>,
     client_receive |-> <<ServerSession_send(CallServerSession, <<Byte(97)>>).data>>]

\* what is left of a well-formed record: nothing, a proper prefix, the
\* record under another type tag, the record around a cut payload, or an
\* empty payload under another type tag
Malformed(record) ==
    {SubSeq(record, 1, k) : k \in 0..(Len(record) - 1)}
    \cup {<<U32(t)>> \o Tail(record) : t \in (0..Len(MessageType)) \ {Head(record).n}}
    \cup {<<Head(record)>> \o ser_bytes(SubSeq(record, 3, k)) : k \in 2..(Len(record) - 1)}
    \cup {<<U32(t)>> \o ser_bytes(<<>>) : t \in (0..(Len(MessageType) - 1)) \ {Head(record).n}}

\* records of every type around payloads of every kind
Payloads ==
    Plaintexts
    \cup UNION {{Tail(Tail(ExpectedRecords[op][i])) : i \in 1..Len(ExpectedRecords[op])} :
                   op \in DOMAIN ExpectedRecords}

Messages ==
    {HandshakeMessage(MessageType[t], payload) :
        t \in 1..Len(MessageType), payload \in Payloads}

Calls ==
    {<<"deserialize", msg>> : msg \in Messages}
    \cup {<<"handshake", data>> : data \in Malformed(ExpectedRecords.handshake[1])}
    \cup UNION {{<<"complete_handshake", [ServerMessages EXCEPT ![i] = data]>> :
                    data \in Malformed(ServerMessages[i])} :
                        i \in 1..Len(ServerMessages)}
    \cup {<<"server_receive", data>> : data \in Malformed(ExpectedRecords.server_receive[1])}
    \cup {<<"client_receive", data>> : data \in Malformed(ExpectedRecords.client_receive[1])}

InitCalls ==
    /\ client_config = [cipher_suites |-> CallConfig.cipher_suites, server_name |-> None]
    /\ server_config = CallConfig
    /\ hs_state = None
    /\ client_hello_out = None
    /\ server_in = None
    /\ server_result = None
    /\ client_in = None
    /\ client_result = None
    /\ NoCipher
    /\ call \in Calls
    /\ returned = None
    /\ NoSession
    /\ NoKem

Returning(result) ==
    /\ returned = None
    /\ returned' = Some(result)
    /\ UNCHANGED <<hs_vars, cipher_vars, session_vars, kem_vars, call>>

\* HandshakeMessage::deserialize(&msg.serialize())
CallDeserialize ==
    /\ call[1] = "deserialize"
    /\ Returning(deserialize(serialize(call[2])))

\* server.handshake(data)
CallHandshake ==
    /\ call[1] = "handshake"
    /\ Returning(handshake(Server_new(CallConfig, Honest), ServerRng, call[2]))

\* client.complete_handshake(state, server_messages)
CallCompleteHandshake ==
    /\ call[1] = "complete_handshake"
    /\ Returning(complete_handshake(CallStarted.state, call[2]))

\* server_session.receive(data)
CallServerReceive ==
    /\ call[1] = "server_receive"
    /\ Returning(ServerSession_receive(CallServerSession, call[2]))

\* client_session.receive(data)
CallClientReceive ==
    /\ call[1] = "client_receive"
    /\ Returning(ClientSession_receive(CallClientSession, call[2]))

NextCalls ==
    \/ CallDeserialize
    \/ CallHandshake
    \/ CallCompleteHandshake
    \/ CallServerReceive
    \/ CallClientReceive

SpecCalls == InitCalls /\ [][NextCalls]_vars

---------------------------------------------------------------------------
(* Two sessions over one key schedule exchange application data: each     *)
(* side sends, and receives any record that was put on the wire.          *)

MaxSent == 2
MaxDelivered == 3

InitSession ==
    /\ client_config = [cipher_suites |-> CallConfig.cipher_suites, server_name |-> None]
    /\ server_config = CallConfig
    /\ hs_state = None
    /\ client_hello_out = None
    /\ server_in = None
    /\ server_result = None
    /\ client_in = None
    /\ client_result = None
    /\ NoCipher
    /\ NoCall
    /\ sessions = Some([client |-> CallClientSession, server |-> CallServerSession])
    /\ wire = <<>>
    /\ received = None
    /\ deliveries = <<>>
    /\ NoKem

Sent(who, plaintext, out) ==
    /\ sessions' = Some([Get(sessions) EXCEPT ![who] = out.session])
    /\ wire' = Append(wire, [from |-> who, plaintext |-> plaintext, data |-> out.data])
    /\ received' = None
    /\ deliveries' = deliveries

Received(who, i, out) ==
    /\ sessions' = Some([Get(sessions) EXCEPT ![who] = out.session])
    /\ received' = Some([who |-> who, record |-> i, ok |-> out.ok, err |-> out.err,
                         plaintext |-> out.plaintext])
    /\ deliveries' = Append(deliveries, [who |-> who, record |-> i, ok |-> out.ok])
    /\ wire' = wire

\* client_session.send(data)
ClientSend ==
    /\ Len(wire) < MaxSent
    /\ \E data \in {<<>>, <<Byte(97)>>} :
          Sent("client", data, ClientSession_send(Get(sessions).client, data))
    /\ UNCHANGED <<hs_vars, cipher_vars, call_vars, kem_vars>>

\* server_session.send(data)
ServerSend ==
    /\ Len(wire) < MaxSent
    /\ \E data \in {<<>>, <<Byte(97)>>} :
          Sent("server", data, ServerSession_send(Get(sessions).server, data))
    /\ UNCHANGED <<hs_vars, cipher_vars, call_vars, kem_vars>>

\* client_session.receive(data) for a record on the wire
ClientReceive ==
    /\ Len(deliveries) < MaxDelivered
    /\ \E i \in 1..Len(wire) :
          Received("client", i, ClientSession_receive(Get(sessions).client, wire[i].data))
    /\ UNCHANGED <<hs_vars, cipher_vars, call_vars, kem_vars>>

\* server_session.receive(data) for a record on the wire
ServerReceive ==
    /\ Len(deliveries) < MaxDelivered
    /\ \E i \in 1..Len(wire) :
          Received("server", i, ServerSession_receive(Get(sessions).server, wire[i].data))
    /\ UNCHANGED <<hs_vars, cipher_vars, call_vars, kem_vars>>

NextSession == ClientSend \/ ServerSend \/ ClientReceive \/ ServerReceive

SpecSession == InitSession /\ [][NextSession]_vars

---------------------------------------------------------------------------
(* Properties *)

\* the server answered the client's own ClientHello and its four messages
\* reached complete_handshake unmodified and in order
HonestRun ==
    /\ IsSome(client_in)
    /\ Get(client_in).from = "server"
    /\ Get(client_in).tamper = Untouched
    /\ server_in = client_hello_out

\* C1: in an honest run with a cipher suite in common, complete_handshake
\* returns a ClientSession and no error.
C1_HonestHandshakeCompletes == HonestRun => Get(client_result).ok

KeysAgree(client_side, server_side) ==
    /\ client_side.write_cipher.key = server_side.read_cipher.key
    /\ client_side.write_cipher.iv = server_side.read_cipher.iv
    /\ server_side.write_cipher.key = client_side.read_cipher.key
    /\ server_side.write_cipher.iv = client_side.read_cipher.iv

\* C2: a full exchange yields a ClientSession and a ServerSession whose
\* traffic keys agree across direction: the client's write key and IV are
\* the server's read key and IV, and the server's write key and IV are the
\* client's read key and IV.
C2_TrafficKeysAgree ==
    HonestRun =>
        /\ IsSome(Get(client_result).session)
        /\ IsSome(Get(server_result).session)
        /\ KeysAgree(Get(Get(client_result).session), Get(Get(server_result).session))

RECURSIVE ClientToServer(_, _, _)
ClientToServerStep(plaintexts, sent, server_side) ==
    /\ ServerSession_receive(server_side, sent.data).plaintext = Some(Head(plaintexts))
    /\ ClientToServer(sent.session,
                      ServerSession_receive(server_side, sent.data).session,
                      Tail(plaintexts))
ClientToServer(client_side, server_side, plaintexts) ==
    \/ plaintexts = <<>>
    \/ /\ plaintexts # <<>>
       /\ ClientToServerStep(plaintexts,
                             ClientSession_send(client_side, Head(plaintexts)),
                             server_side)

RECURSIVE ServerToClient(_, _, _)
ServerToClientStep(plaintexts, sent, client_side) ==
    /\ ClientSession_receive(client_side, sent.data).plaintext = Some(Head(plaintexts))
    /\ ServerToClient(sent.session,
                      ClientSession_receive(client_side, sent.data).session,
                      Tail(plaintexts))
ServerToClient(server_side, client_side, plaintexts) ==
    \/ plaintexts = <<>>
    \/ /\ plaintexts # <<>>
       /\ ServerToClientStep(plaintexts,
                             ServerSession_send(server_side, Head(plaintexts)),
                             client_side)

RoundTrips(client_side, server_side) ==
    \A plaintexts \in [1..2 -> Plaintexts] :
        /\ ClientToServer(client_side, server_side, plaintexts)
        /\ ServerToClient(server_side, client_side, plaintexts)

\* C3: after a completed handshake, records produced by ClientSession.send
\* and passed unmodified and in order to ServerSession.receive come out as
\* the plaintexts that were sent, and likewise from server to client.
C3_SessionRoundTrip ==
    HonestRun =>
        /\ IsSome(Get(client_result).session)
        /\ RoundTrips(Get(Get(client_result).session), Get(Get(server_result).session))

\* the KEM ciphertext, the certificate key or the signature bytes replaced
\* by an unrelated value of the field's length, nothing else changed
ReplacedInTransit ==
    /\ IsSome(client_in)
    /\ Get(client_in).from = "server"
    /\ server_in = client_hello_out
    /\ Get(client_in).tamper.shape = Untouched.shape
    /\ Get(client_in).tamper.fin = Untouched.fin
    /\ Get(client_in).tamper.ct \in {"keep"} \cup UnrelatedCt
    /\ Get(client_in).tamper.vk \in {"keep"} \cup UnrelatedVk
    /\ Get(client_in).tamper.sig \in {"keep"} \cup UnrelatedSig
    /\ Get(client_in).tamper # Untouched

\* C4: when the KEM ciphertext, the certificate key or the signature bytes
\* are replaced in transit by an unrelated value of valid shape,
\* complete_handshake fails with SignatureVerificationFailed or
\* FinishedVerificationFailed and returns no session.
C4_TamperRejected ==
    ReplacedInTransit =>
        /\ ~Get(client_result).ok
        /\ Get(client_result).err.kind \in
               {"SignatureVerificationFailed", "FinishedVerificationFailed"}
        /\ Get(client_result).session = None

Disjoint(offered, configured) ==
    \A i \in 1..Len(offered) : \A j \in 1..Len(configured) : offered[i] # configured[j]

\* C5: when the suites offered in ClientHello and the server's configured
\* suites are disjoint, Server.handshake fails with HandshakeFailed and
\* hands out no messages and no session.
C5_DisjointSuitesFail ==
    (/\ IsSome(server_result)
     /\ server_in = client_hello_out
     /\ Disjoint(client_config.cipher_suites, server_config.cipher_suites))
    => /\ ~Get(server_result).ok
       /\ Get(server_result).err.kind = "HandshakeFailed"
       /\ Get(server_result).session = None
       /\ Outbound("server", server_result) = {}

C5_Witness ==
    /\ IsSome(server_result)
    /\ server_in = client_hello_out
    /\ Disjoint(client_config.cipher_suites, server_config.cipher_suites)
    /\ Get(server_result).err = Error("HandshakeFailed", "No common cipher suite")

\* C6: decrypting the (ciphertext, nonce) that encrypt(m) returned, with a
\* freshly constructed TrafficCipher of the same key and IV, returns
\* exactly m, for the empty m too.
C6_DecryptInvertsEncrypt ==
    (IsSome(decrypt_out) /\ Get(decrypt_out).tamper[1] = "none")
    => /\ Get(decrypt_out).result.ok
       /\ Get(decrypt_out).result.plaintext = Some(Get(last_out).plaintext)

C6_Witness ==
    /\ IsSome(decrypt_out)
    /\ Get(decrypt_out).tamper[1] = "none"
    /\ Get(last_out).plaintext = <<>>
    /\ Len(nonces) >= 2
    /\ Get(decrypt_out).result.plaintext = Some(<<>>)

\* C7: decrypt of a ciphertext in which one byte differs from what encrypt
\* produced returns DecryptionError and no plaintext.
C7_ChangedByteRejected ==
    (IsSome(decrypt_out) /\ Get(decrypt_out).tamper[1] = "flip")
    => /\ ~Get(decrypt_out).result.ok
       /\ Get(decrypt_out).result.err = "DecryptionError"
       /\ Get(decrypt_out).result.plaintext = None

C7_Witness ==
    /\ IsSome(decrypt_out)
    /\ Get(decrypt_out).tamper = <<"flip", 2>>
    /\ Len(Get(last_out).plaintext) = 2
    /\ Get(decrypt_out).result.err = "DecryptionError"

Bit(n, b) == (n \div (2 ^ b)) % 2

\* x is a ^ k, bit by bit
ByteIsXor(x, a, k) ==
    IF a.t = "u8"
    THEN x.t = "u8" /\ \A b \in 0..7 : Bit(x.n, b) = (Bit(a.n, b) + Bit(k, b)) % 2
    ELSE IF k = 0 THEN x = a ELSE x = Mk("xorbyte", k, "", <<a>>)

\* the big-endian 64-bit encoding of i < 2^16
BigEndian64(i) == <<0, 0, 0, 0, 0, 0, (i \div 256) % 256, i % 256>>

NonceOfCall(iv, nonce, i) ==
    /\ Len(nonce) = Len(iv)
    /\ \A p \in 1..4 : nonce[p] = iv[p]
    /\ \A p \in 5..Len(iv) : ByteIsXor(nonce[p], iv[p], BigEndian64(i)[p - 4])

\* C8: the i-th encrypt call (from 0) on one TrafficCipher returns the IV
\* with its last 8 bytes XORed with the big-endian 64-bit encoding of i and
\* its first 4 bytes unchanged; the nonces of N calls are pairwise distinct.
C8_NonceSequence ==
    IsSome(cipher) =>
        /\ \A i \in 1..Len(nonces) : NonceOfCall(Get(cipher).iv, nonces[i], i - 1)
        /\ \A i \in 1..Len(nonces) : \A j \in 1..Len(nonces) :
               i # j => nonces[i] # nonces[j]

C8_Witness ==
    /\ Len(nonces) >= 3
    /\ Get(cipher).iv[NONCE_SIZE] = Byte(204)
    /\ nonces[3][NONCE_SIZE] = Byte(206)

\* a Result as the caller sees it: a complete session, or an error alone
CompleteOrNothing(result) ==
    IF result.ok
    THEN /\ IsSome(result.session)
         /\ result.err = NoError
         /\ Get(result.session).write_cipher.sequence_number = 0
         /\ Get(result.session).read_cipher.sequence_number = 0
         /\ Len(Get(result.session).client_random) = 1
         /\ Len(Get(result.session).server_random) = 1
    ELSE /\ result.session = None
         /\ result.err # NoError

\* C9: every call of Server.handshake and of Client.complete_handshake ends
\* either in a complete session (both ciphers at sequence number 0, both
\* randoms set) or in an error with no session.
C9_SessionOrError ==
    /\ IsSome(server_result) => CompleteOrNothing(Get(server_result))
    /\ IsSome(client_result) => CompleteOrNothing(Get(client_result))

C9_Witness ==
    /\ IsSome(server_result)
    /\ Get(server_result).ok
    /\ Get(Get(server_result).session).client_random = ClientRng.client_random
    /\ IsSome(client_result)
    /\ ~Get(client_result).ok

\* where the client handshake stands
Phase ==
    IF IsSome(client_result)
    THEN (IF Get(client_result).ok THEN "Completed" ELSE "Failed")
    ELSE IF IsSome(hs_state) THEN "HelloSent" ELSE "Start"

\* C10: the client handshake moves only Start -> HelloSent -> Completed or
\* Failed; complete_handshake consumes the ClientHandshakeState, so nothing
\* is retried and no transition leaves Completed or Failed.
C10_ClientStateMachine ==
    [][/\ Phase = "Start" => Phase' \in {"Start", "HelloSent"}
       /\ Phase = "HelloSent" => Phase' \in {"HelloSent", "Completed", "Failed"}
       /\ Phase \in {"Completed", "Failed"} =>
              /\ Phase' = Phase
              /\ UNCHANGED <<hs_state, client_in, client_result>>
       /\ Phase' \in {"Completed", "Failed"} => hs_state' = None]_vars

C10_Witness ==
    /\ Phase = "Failed"
    /\ hs_state = None
    /\ IsSome(client_hello_out)

\* the only Finished a server could check: the one a ClientSession carries
ClientFinishedExists ==
    IsSome(client_result) /\ IsSome(Get(client_result).session)

ServerSecret ==
    Encapsulate(<<EncapsulationKey(IF server_in = client_hello_out THEN Honest
                                   ELSE Other)>>, ServerRng.coins).shared_secret

DerivedFrom(session, master) ==
    /\ session.key_schedule.master_secret = master
    /\ session.write_cipher.key = Sha3_256(<<master, Str("server write key")>>)
    /\ session.read_cipher.key = Sha3_256(<<master, Str("client write key")>>)
    /\ Len(session.write_cipher.iv) = 12
    /\ \A j \in 1..12 :
           session.write_cipher.iv[j] =
               Mk("byte", j, "", <<Sha3_256(<<master, Str("server write iv")>>)>>)
    /\ Len(session.read_cipher.iv) = 12
    /\ \A j \in 1..12 :
           session.read_cipher.iv[j] =
               Mk("byte", j, "", <<Sha3_256(<<master, Str("client write iv")>>)>>)
    /\ derive_finished_key(session.key_schedule, "server finished")
           = Sha3_256(<<master, Str("server finished")>>)
    /\ derive_finished_key(session.key_schedule, "client finished")
           = Sha3_256(<<master, Str("client finished")>>)

\* C14: every key of a session's KeySchedule is a function of the shared
\* secret and a fixed label only: master = Hash(secret), key =
\* Hash(master || label), IVs the first 12 bytes, whatever the hello
\* randoms and the transcript are.
C14_KeysFromSecretAndLabel ==
    (IsSome(server_result) /\ IsSome(Get(server_result).session))
    => DerivedFrom(Get(Get(server_result).session), Sha3_256(ServerSecret))

C14_Witness ==
    /\ IsSome(server_result)
    /\ IsSome(Get(server_result).session)
    /\ server_in = client_hello_out
    /\ IsSome(client_config.server_name)
    /\ Len(client_config.cipher_suites) = 2

DistinctKeys(session, ks) ==
    /\ session.write_cipher.key # session.read_cipher.key
    /\ session.write_cipher.iv # session.read_cipher.iv
    /\ Cardinality({derive_client_write_key(ks), derive_server_write_key(ks),
                    derive_finished_key(ks, "client finished"),
                    derive_finished_key(ks, "server finished")}) = 4
    /\ Cardinality({derive_client_write_iv(ks), derive_server_write_iv(ks),
                    FirstBytes(derive_client_write_key(ks), NONCE_SIZE),
                    FirstBytes(derive_server_write_key(ks), NONCE_SIZE),
                    FirstBytes(derive_finished_key(ks, "client finished"), NONCE_SIZE),
                    FirstBytes(derive_finished_key(ks, "server finished"), NONCE_SIZE)})
           = 6

\* C15: the values a KeySchedule derives under the six labels are pairwise
\* distinct: the client write key differs from the server write key, and no
\* traffic key or IV coincides with a finished key.
C15_LabelsSeparateKeys ==
    (IsSome(server_result) /\ IsSome(Get(server_result).session))
    => DistinctKeys(Get(Get(server_result).session),
                    Get(Get(server_result).session).key_schedule)

C15_Witness ==
    /\ IsSome(server_result)
    /\ IsSome(Get(server_result).session)
    /\ Get(Get(server_result).session).write_cipher.key
           = Sha3_256(<<Sha3_256(ServerSecret), Str("server write key")>>)

\* the suite the ServerHello among the outbound messages carries
ChosenSuite(server_hello_data) ==
    de_ServerHello(deserialize(server_hello_data).val.payload).val.cipher_suite

FirstServerMatch(chosen, configured, offered) ==
    \E i \in 1..Len(configured) :
        /\ configured[i] = chosen
        /\ \E j \in 1..Len(offered) : offered[j] = chosen
        /\ \A k \in 1..(i - 1) : \A j \in 1..Len(offered) : offered[j] # configured[k]

\* C17: when the lists overlap, the suite in ServerHello is the first
\* entry of the server's configured list that the client offers, whatever
\* the order of the client's list.
C17_ServerPreferenceWins ==
    (/\ IsSome(server_result)
     /\ server_in = client_hello_out
     /\ ~Disjoint(client_config.cipher_suites, server_config.cipher_suites))
    => /\ Get(server_result).ok
       /\ FirstServerMatch(
              ChosenSuite(Get(Get(server_result).session).handshake_messages[1]),
              server_config.cipher_suites, client_config.cipher_suites)

C17_Witness ==
    /\ IsSome(server_result)
    /\ server_in = client_hello_out
    /\ client_config.cipher_suites =
           <<MlKem512MlDsa44Aes256Gcm, MlKem768MlDsa65Aes256Gcm>>
    /\ server_config.cipher_suites =
           <<MlKem768MlDsa65Aes256Gcm, MlKem512MlDsa44Aes256Gcm>>
    /\ ChosenSuite(Get(Get(server_result).session).handshake_messages[1])
           = MlKem768MlDsa65Aes256Gcm

\* C18: with fewer than four server messages complete_handshake fails with
\* the incomplete-response error, whatever the messages hold, and returns
\* no session.
C18_IncompleteResponse ==
    (IsSome(client_in) /\ Get(client_in).tamper.shape[1] \in {"drop_last", "empty", "junk"})
    => /\ Get(client_result).err = Error("HandshakeFailed", "Incomplete server response")
       /\ Get(client_result).session = None

C18_Witness ==
    /\ IsSome(client_in)
    /\ Get(client_in).tamper.shape = <<"junk", 3>>
    /\ Get(client_result).err.msg = "Incomplete server response"

\* a well-formed signature reaches the client that cannot verify under the
\* delivered key against the client's transcript
SignatureInvalid ==
    /\ IsSome(client_in)
    /\ Get(client_in).from = "server"
    /\ server_in = client_hello_out
    /\ Get(client_in).tamper.shape = Untouched.shape
    /\ \/ Get(client_in).tamper.sig \in {"other_signer", "other_message"}
       \/ /\ Get(client_in).tamper.sig = "keep"
          /\ \/ Get(client_in).tamper.ct # "keep"
             \/ Get(client_in).tamper.vk # "keep"
       \/ /\ Get(client_in).tamper.sig = "adaptive"
          /\ Get(client_in).tamper.vk # "other"

ServerFinishedDelivered ==
    /\ IsSome(client_in)
    /\ Get(client_in).tamper = Untouched
    /\ Get(client_in).from = "server" => server_in = client_hello_out

\* C20: the verify-data complete_handshake expects in the server Finished
\* is Hash(server_finished_key || Hash(ClientHello, ServerHello,
\* Certificate, CertificateVerify)), the value the server computed, so a
\* Finished carrying that value is not answered with
\* FinishedVerificationFailed.
C20_ExpectedVerifyData ==
    ServerFinishedDelivered =>
        Get(client_result).err.kind # "FinishedVerificationFailed"

RECURSIVE Successes(_)
Successes(log) ==
    IF log = <<>> THEN 0 ELSE (IF Head(log) THEN 1 ELSE 0) + Successes(Tail(log))

\* C16: the sequence number of a TrafficCipher is 0 after construction and
\* always equals the number of encrypt and decrypt calls on it that
\* returned Ok; a failed call leaves it as it was.
C16_CounterCountsSuccesses ==
    /\ IsSome(cipher) => Get(cipher).sequence_number = Len(nonces)
    /\ IsSome(reader) => Get(reader).sequence_number = Successes(reader_log)

C16_Witness ==
    /\ IsSome(reader)
    /\ reader_log = <<FALSE, TRUE>>
    /\ Get(reader).sequence_number = 1
    /\ Get(cipher).sequence_number = 2

Returned(op) == call # None /\ call[1] = op /\ IsSome(returned)

\* C12: for every record type and every payload, deserialize(serialize(m))
\* succeeds and yields a record with the type tag and the payload bytes of m.
C12_DecodeInvertsEncode ==
    Returned("deserialize") =>
        /\ Get(returned).ok
        /\ Get(returned).val.msg_type = call[2].msg_type
        /\ Get(returned).val.payload = call[2].payload

C12_Witness ==
    /\ Returned("deserialize")
    /\ call[2].msg_type = "ApplicationData"
    /\ call[2].payload \in Plaintexts
    /\ Len(call[2].payload) = MaxLen
    /\ Get(returned).ok

DecodingError(result) ==
    /\ ~result.ok
    /\ result.err.kind \in {"SerializationError", "InvalidMessageType"}

\* C13: a buffer that is empty, cut short or carries another type tag than
\* the step expects makes Server.handshake, Client.complete_handshake,
\* ClientSession.receive and ServerSession.receive return an error: no
\* session and no plaintext comes out of it, and the receiving session is
\* left as it was.
C13_MalformedRejected ==
    /\ (Returned("handshake") \/ Returned("complete_handshake")) =>
           /\ DecodingError(Get(returned))
           /\ Get(returned).session = None
    /\ Returned("server_receive") =>
           /\ DecodingError(Get(returned))
           /\ Get(returned).plaintext = None
           /\ Get(returned).session = CallServerSession
    /\ Returned("client_receive") =>
           /\ DecodingError(Get(returned))
           /\ Get(returned).plaintext = None
           /\ Get(returned).session = CallClientSession

C13_Witness ==
    /\ Returned("client_receive")
    /\ call[2] = <<>>
    /\ Get(returned).err.kind = "SerializationError"
    /\ Get(returned).plaintext = None

ServerOk == IsSome(server_result) /\ Get(server_result).ok

ServerMessage(i) == Get(Get(server_result).session).handshake_messages[i]

\* ClientHello as the server received it, then the first k outbound records
ServerTranscript(k) ==
    <<Get(server_in)>> \o
    SubSeq(Get(Get(server_result).session).handshake_messages, 1, k)

\* C21: the verify-data in the server's Finished is
\* Hash(server_finished_key || Hash(ClientHello || ServerHello ||
\* Certificate || CertificateVerify)): the Finished record itself is not
\* covered.
C21_ServerVerifyData ==
    ServerOk =>
        de_Finished(Tail(Tail(ServerMessage(4)))).val.verify_data =
            <<Sha3_256(<<Sha3_256(<<Sha3_256(ServerSecret), Str("server finished")>>),
                         Sha3_256(Concat(ServerTranscript(3)))>>)>>

C21_Witness ==
    /\ ServerOk
    /\ server_in = client_hello_out
    /\ Len(server_config.cipher_suites) = 3
    /\ deserialize(ServerMessage(4)).val.msg_type = "Finished"

\* the signature was made by the server over [ClientHello, ServerHello,
\* Certificate], or over less or more than that
SignedOver(kind) ==
    /\ IsSome(client_in)
    /\ Get(client_in).from = "server"
    /\ server_in = client_hello_out
    /\ Get(client_in).tamper = [Untouched EXCEPT !.sig = kind]

\* C22: the CertificateVerify signature is bound to the hash of
\* [ClientHello, ServerHello, Certificate]: the server signs that hash, and
\* the client verifies against the hash of its transcript before
\* CertificateVerify is pushed, so it accepts that signature and rejects
\* the server's signature over a shorter or a longer transcript.
C22_SignatureBinding ==
    /\ ServerOk =>
           de_CertificateVerify(Tail(Tail(ServerMessage(3)))).val.signature =
               <<Sign(Honest, Sha3_256(Concat(ServerTranscript(2))))>>
    /\ SignedOver("keep") =>
           Get(client_result).err.kind \notin
               {"SignatureVerificationFailed", "HandshakeFailed"}
    /\ (SignedOver("signed_early") \/ SignedOver("signed_late")) =>
           /\ Get(client_result).err.kind = "SignatureVerificationFailed"
           /\ Get(client_result).session = None

C22_Witness ==
    /\ SignedOver("signed_late")
    /\ Get(client_result).err.kind = "SignatureVerificationFailed"

\* the expected verify-data of the client Finished
ClientVerifyData(transcript) ==
    <<Sha3_256(<<Sha3_256(<<Sha3_256(ServerSecret), Str("client finished")>>),
                 Sha3_256(Concat(transcript))>>)>>

\* C23: a complete_handshake that succeeds returns a client Finished whose
\* verify-data is Hash(client_finished_key || Hash(ClientHello ||
\* ServerHello || Certificate || CertificateVerify || server Finished)).
C23_ClientFinished ==
    HonestRun =>
        /\ IsSome(Get(client_result).session)
        /\ de_Finished(Tail(Tail(
               Get(Get(client_result).session).client_finished_data))).val.verify_data
               = ClientVerifyData(ServerTranscript(4))

MissingKeyShareHello ==
    ForeignHello(<<MlKem768MlDsa65Aes256Gcm>>,
                 <<Extension("SupportedVersions", <<U16(PQ_TLS_VERSION)>>)>>)

\* C28: a hello without its key share ends the handshake with
\* HandshakeFailed and no session: at the client when ServerHello carries
\* no KEM ciphertext, whatever the other three messages are, and at the
\* server when ClientHello carries no encapsulation key (the server looks
\* for the key share once a cipher suite in common is found).
C28_MissingKeyShare ==
    /\ (IsSome(client_in) /\ Get(client_in).tamper.shape[1] = "no_key_share") =>
           /\ Get(client_result).err =
                  Error("HandshakeFailed", "No key share ciphertext")
           /\ Get(client_result).session = None
    /\ (IsSome(server_result) /\ server_in = Some(MissingKeyShareHello)) =>
           /\ Get(server_result).err.kind = "HandshakeFailed"
           /\ Get(server_result).session = None
           /\ ~Disjoint(<<MlKem768MlDsa65Aes256Gcm>>, server_config.cipher_suites)
                  => Get(server_result).err.msg = "No key share"

C28_Witness ==
    /\ IsSome(client_in)
    /\ Get(client_in).tamper.shape[1] = "no_key_share"
    /\ Get(client_in).tamper.sig = "random"
    /\ Get(client_in).tamper.fin = "junk"
    /\ Get(client_result).err.msg = "No key share ciphertext"
    /\ server_in # Some(MissingKeyShareHello)

RecordTypes(msgs) == [i \in 1..Len(msgs) |-> deserialize(msgs[i]).val.msg_type]

\* C29: a successful Server.handshake yields exactly four outbound
\* messages, ServerHello, Certificate, CertificateVerify and Finished in
\* that order, and they are the records of the server's transcript after
\* ClientHello: the signature and the MAC the server made over its
\* transcript are over ClientHello and these records.
C29_FourOutboundMessages ==
    ServerOk =>
        /\ RecordTypes(Get(Get(server_result).session).handshake_messages)
               = <<"ServerHello", "Certificate", "CertificateVerify", "Finished">>
        /\ Verify(de_Certificate(Tail(Tail(ServerMessage(2)))).val.verifying_key,
                  Sha3_256(Concat(ServerTranscript(2))),
                  de_CertificateVerify(Tail(Tail(ServerMessage(3)))).val.signature)
        /\ de_Finished(Tail(Tail(ServerMessage(4)))).val.verify_data =
               <<compute_verify_data(
                     derive_finished_key(Get(Get(server_result).session).key_schedule,
                                         "server finished"),
                     ServerTranscript(3))>>

C29_Witness ==
    /\ ServerOk
    /\ server_in # client_hello_out
    /\ Len(Get(Get(server_result).session).handshake_messages) = 4
    /\ deserialize(ServerMessage(1)).val.msg_type = "ServerHello"

\* the buffer decodes as a record, of another type than the step expects
WrongTag(data, msg_type) ==
    /\ deserialize(data).ok
    /\ deserialize(data).val.msg_type # msg_type

TypeRejected(result) ==
    /\ result.err = Error("InvalidMessageType", "")
    /\ result.session = None

\* C27: every handshake step checks the type tag of its record before it
\* reads the payload: the server turns down a record that is not a
\* ClientHello, the client a record at position 0, 1, 2, 3 that is not a
\* ServerHello, Certificate, CertificateVerify, Finished, with
\* InvalidMessageType and no session, whether the payload would decode or
\* not.
C27_TypeTagChecked ==
    /\ (Returned("handshake") /\ WrongTag(call[2], "ClientHello"))
           => TypeRejected(Get(returned))
    /\ Returned("complete_handshake") =>
           \A i \in 1..4 :
               WrongTag(call[2][i], MessageType[i + 1])
                   => TypeRejected(Get(returned))

C27_Witness ==
    /\ Returned("complete_handshake")
    /\ call[2][3] = <<U32(4)>> \o ser_bytes(<<>>)
    /\ Get(returned).err.kind = "InvalidMessageType"

\* C24 (as claimed): decrypt adds one to the sequence counter on every
\* call, whether it returns plaintext or fails with DecryptionError.
C24_CounterOnEveryCall ==
    IsSome(decrypt_out) => Get(decrypt_out).result.self.sequence_number = 1

\* C24 (amended): decrypt adds one to the sequence counter when it returns
\* plaintext; a call that fails with DecryptionError, for a nonce of wrong
\* length or a failed authentication, leaves the counter as it was.
C24_CounterOnSuccessOnly ==
    IsSome(decrypt_out) =>
        /\ Get(decrypt_out).result.ok =>
               /\ IsSome(Get(decrypt_out).result.plaintext)
               /\ Get(decrypt_out).result.self.sequence_number = 1
        /\ ~Get(decrypt_out).result.ok =>
               /\ Get(decrypt_out).result.err = "DecryptionError"
               /\ Get(decrypt_out).result.self.sequence_number = 0

C24_Witness ==
    /\ IsSome(decrypt_out)
    /\ Get(decrypt_out).tamper[1] = "wrong_key"
    /\ Get(decrypt_out).result.err = "DecryptionError"
    /\ Get(decrypt_out).result.self.sequence_number = 0

\* C25: decrypt with a nonce whose length is not 12 bytes returns
\* DecryptionError and no plaintext, for the ciphertext encrypt produced
\* and for one sealed under that very nonce, which decryption would open.
C25_NonceLengthChecked ==
    (/\ IsSome(decrypt_out)
     /\ Get(decrypt_out).tamper[1] \in
            {"short_nonce", "long_nonce", "short_sealed", "long_sealed"})
    => /\ ~Get(decrypt_out).result.ok
       /\ Get(decrypt_out).result.err = "DecryptionError"
       /\ Get(decrypt_out).result.plaintext = None

C25_Witness ==
    /\ IsSome(decrypt_out)
    /\ Get(decrypt_out).tamper[1] = "long_sealed"
    /\ Len(Get(last_out).plaintext) = 1
    /\ Get(decrypt_out).result.err = "DecryptionError"

\* everything of a session but the counter of the named cipher
Frame(session, counted) ==
    [session EXCEPT ![counted].sequence_number = 0]

\* C30: the two directions of a session are independent: send changes
\* only the write cipher's sequence counter and receive only the read
\* cipher's; keys, IVs, randoms and the other direction's counter stay as
\* they were, and so does the peer's session.
C30_DirectionsIndependent ==
    [][/\ wire' # wire =>
           /\ Frame(Get(sessions')[wire'[Len(wire')].from], "write_cipher")
                  = Frame(Get(sessions)[wire'[Len(wire')].from], "write_cipher")
           /\ Get(sessions')[wire'[Len(wire')].from].write_cipher.sequence_number
                  = Get(sessions)[wire'[Len(wire')].from].write_cipher.sequence_number + 1
           /\ \A who \in {"client", "server"} \ {wire'[Len(wire')].from} :
                  Get(sessions')[who] = Get(sessions)[who]
       /\ (wire' = wire /\ IsSome(received')) =>
           /\ Frame(Get(sessions')[Get(received').who], "read_cipher")
                  = Frame(Get(sessions)[Get(received').who], "read_cipher")
           /\ Get(sessions')[Get(received').who].read_cipher.sequence_number
                  = Get(sessions)[Get(received').who].read_cipher.sequence_number
                    + (IF Get(received').ok THEN 1 ELSE 0)
           /\ \A who \in {"client", "server"} \ {Get(received').who} :
                  Get(sessions')[who] = Get(sessions)[who]
      ]_vars

C30_Witness ==
    /\ IsSome(sessions)
    /\ Get(sessions).client.write_cipher.sequence_number = 1
    /\ Get(sessions).client.read_cipher.sequence_number = 1
    /\ Get(sessions).server.write_cipher.sequence_number = 1
    /\ Get(sessions).server.read_cipher.sequence_number = 0
    /\ IsSome(received)
    /\ Get(received).ok

---------------------------------------------------------------------------
(* Delivery of application records between the two sessions.              *)

Peer(who) == IF who = "client" THEN "server" ELSE "client"

\* the positions on the wire of the records `who` sent, in sending order
SentBy(who) == SelectSeq([i \in 1..Len(wire) |-> i], LAMBDA i : wire[i].from = who)

\* the records handed to the receive calls of `who`, in calling order
DeliveredTo(who) == LET calls == SelectSeq(deliveries, LAMBDA d : d.who = who) IN [j \in 1..Len(calls) |-> calls[j].record]

C33_OutcomeIgnoresCounter ==
    /\ \A j \in 1..Len(deliveries) :
           wire[deliveries[j].record].from = Peer(deliveries[j].who) => deliveries[j].ok
    /\ (IsSome(received) /\ wire[Get(received).record].from = Peer(Get(received).who)) =>
           /\ Get(received).ok
           /\ Get(received).plaintext = Some(wire[Get(received).record].plaintext)

C33_Witness ==
    /\ SentBy("client") = <<1, 2>>
    /\ DeliveredTo("server") = <<2, 1, 1>>
    /\ \A j \in 1..3 : deliveries[j].ok
    /\ Get(sessions).server.read_cipher.sequence_number = 3
    /\ Get(received).plaintext = Some(wire[1].plaintext)

\* C34: a record a session's own send produced is rejected by the same
\* session's receive with a decryption error, and the session stays as it
\* was: the read cipher has the peer's write key, not the session's own.
C34_ReflectionRejected ==
    /\ \A j \in 1..Len(deliveries) :
           wire[deliveries[j].record].from = deliveries[j].who => ~deliveries[j].ok
    /\ (IsSome(received) /\ wire[Get(received).record].from = Get(received).who) =>
           /\ Get(received).err = Error("CryptoError", "DecryptionError")
           /\ Get(received).plaintext = None
    /\ IsSome(sessions) =>
           \A who \in {"client", "server"} :
               Get(sessions)[who].read_cipher.key # Get(sessions)[who].write_cipher.key

C34_Witness ==
    /\ IsSome(received)
    /\ Get(received).who = "client"
    /\ wire[Get(received).record].from = "client"
    /\ Get(received).err = Error("CryptoError", "DecryptionError")
    /\ Get(sessions).client.read_cipher.sequence_number = 0
    /\ Get(sessions).client.write_cipher.sequence_number = 1

\* a server of its own making answered the client's hello with a version
\* and a cipher suite it chose, signed the transcript and sent a Finished
\* computed as Server::handshake computes it
RogueRun ==
    /\ IsSome(client_in)
    /\ Get(client_in).from = "rogue"

\* the cipher suite in the ServerHello is none the client offered
Unoffered(choice) ==
    \A i \in 1..Len(client_config.cipher_suites) : client_config.cipher_suites[i] # choice[2]

\* C35: complete_handshake does not look at the version or the cipher
\* suite of the ServerHello, so a server whose ServerHello names a suite
\* the client did not offer, or another version, is accepted like any
\* other: complete_handshake returns a session.
C35_UnofferedSuiteAccepted ==
    (RogueRun /\ (Unoffered(Get(client_in).choice) \/ Get(client_in).choice[1] # PQ_TLS_VERSION)) =>
        Get(client_result).ok

\* C36: a party with a key pair of its own that encapsulates to the
\* client's key share, sends its own verifying key as Certificate, signs
\* the transcript and sends the matching Finished completes the handshake:
\* complete_handshake returns a ClientSession whose server_verifying_key
\* is that party's key.
C36_AnySignerAccepted ==
    (IsSome(client_in) /\ Get(client_in).from = "foreign") =>
        /\ Get(client_result).ok
        /\ Get(Get(client_result).session).server_verifying_key = <<VerifyingKey(Other)>>

---------------------------------------------------------------------------
(* The sequence counter at the end of its range.                          *)

\* the big-endian bytes of the u64 a sequence number stands for, for the
\* values near 0 and near 2^64
CounterBytes(n) ==
    IF n >= 0 THEN BigEndian64(n) ELSE <<255, 255, 255, 255, 255, 255, 255, 256 + n>>

\* the u64 after n when nothing checks the addition
Successor(n) == IF n = U64_MAX THEN 0 ELSE n + 1

NonceWith(iv, nonce, seq_bytes) ==
    /\ Len(nonce) = Len(iv)
    /\ \A p \in 1..4 : nonce[p] = iv[p]
    /\ \A p \in 5..Len(iv) : ByteIsXor(nonce[p], iv[p], seq_bytes[p - 4])

Repeated(log) == \E i \in 1..Len(log) : \E j \in 1..Len(log) : i # j /\ log[i] = log[j]

\* C37: TrafficCipher never looks at the value of its counter.  Every
\* encrypt call that returns returns Ok, with the IV XORed with the eight
\* bytes of the 64-bit counter as nonce, and leaves the counter one higher
\* modulo 2^64; decrypt opens an unchanged record and rejects a changed
\* one whatever the counter is, and counts the same way.  No call returns
\* an error at u64::MAX: the increment then wraps to 0 or, in a build
\* with overflow checks, panics.  The nonces returned are pairwise
\* distinct as long as the counter has not gone past u64::MAX.
C37_NoCounterCheck ==
    [][/\ nonces' # nonces =>
           /\ IsSome(last_out')
           /\ NonceWith(Get(cipher).iv, nonces'[Len(nonces')],
                        CounterBytes(Get(cipher).sequence_number))
           /\ Get(cipher').sequence_number = Successor(Get(cipher).sequence_number)
       /\ (IsSome(decrypt_out') /\ nonces' = nonces /\ cipher' # cipher
           /\ cipher' = Some(Get(decrypt_out').result.self)) =>
           /\ Get(decrypt_out').result.ok
           /\ Get(cipher').sequence_number = Successor(Get(cipher).sequence_number)
       /\ IsSome(decrypt_out') =>
           (Get(decrypt_out').result.ok <=> Get(decrypt_out').tamper[1] = "none")
       /\ (life'.panicked /\ ~life.panicked) =>
           /\ Overflows(Get(cipher))
           /\ life.overflow_checks
           /\ cipher' = cipher
       /\ life'.wraps = 0 => ~Repeated(nonces')
      ]_vars

\* the counter went past u64::MAX and a nonce came back a second time
C37_Witness ==
    /\ life.wraps = 1
    /\ ~life.overflow_checks
    /\ Repeated(nonces)
    /\ Get(cipher).sequence_number = 1
    /\ nonces[Len(nonces)] = Get(cipher).iv

---------------------------------------------------------------------------
(* The KEM-TLS variant.                                                   *)

Ops(log) == [i \in 1..Len(log) |-> <<log[i].op, log[i].input>>]

IsPrefix(s, t) == Len(s) <= Len(t) /\ s = SubSeq(t, 1, Len(s))

\* every call so far is one of test_full_handshake, in its order, on the
\* bytes the peer returned
KemHonest ==
    /\ IsPrefix(Ops(kem.log.client),
                <<<<"generate_client_hello", "none">>,
                  <<"process_server_hello", "server_hello">>,
                  <<"generate_finished", "none">>>>)
    /\ IsPrefix(Ops(kem.log.server),
                <<<<"process_client_hello", "client_hello">>,
                  <<"verify_finished", "finished">>>>)

AllOk(log) == \A i \in 1..Len(log) : log[i].kind = "Ok"

\* C32: an honest run of the KEM-TLS variant ends with verify_finished
\* returning Ok.  The transcript the client MACs is ClientHello ||
\* ServerHello, the server's transcript without the Finished it received
\* is the same bytes, and both sides hold the same two keys.
C32_KemHonestRun ==
    KemHonest =>
        /\ AllOk(kem.log.client)
        /\ AllOk(kem.log.server)
        /\ Len(kem.log.client) >= 2 =>
               /\ IsSome(kem.client.client_cipher)
               /\ kem.client.client_cipher = kem.server.client_cipher
               /\ kem.client.server_cipher = kem.server.server_cipher
               /\ kem.client.client_cipher # kem.client.server_cipher
        /\ Len(kem.log.client) = 3 =>
               Get(kem.finished) =
                   KemHandshakeMessage_serialize(FINISHED,
                       <<client_verify_data(Get(kem.client.shared_secret),
                                            Get(kem.client_hello) \o Get(kem.server_hello))>>)
        /\ Len(kem.log.server) = 2 =>
               /\ kem.server.handshake_messages = kem.client.handshake_messages
               /\ kem.server.handshake_messages
                      = Get(kem.client_hello) \o Get(kem.server_hello) \o Get(kem.finished)

C32_Witness ==
    /\ KemHonest
    /\ Len(kem.log.server) = 2
    /\ kem.log.server[2].kind = "Ok"
    /\ IsSome(kem.result)
    /\ IsSome(kem.client_record)
    /\ Get(kem.result) = [who |-> "server", op |-> "decrypt_data",
                          input |-> <<"client_record", Get(kem.client_record)>>,
                          kind |-> "Ok", msg |-> "", val |-> <<Byte(97)>>]

\* the latest call was `op` on `who`
KemReturned(who, op) ==
    /\ IsSome(kem.result)
    /\ Get(kem.result).who = who
    /\ Get(kem.result).op = op

\* no hello exchange has succeeded on the object
NoKeys(who) == ~IsSome(kem[who].shared_secret)

KeysNotDerived(result) == result.kind = "Err" /\ result.msg = "Keys not derived yet"

\* C38 as stated: before the hello exchange has succeeded on an object,
\* its encrypt_data and decrypt_data return Err("Keys not derived yet"),
\* and generate_finished and verify_finished abort.
C38_OutOfOrderCalls ==
    \A who \in {"client", "server"} :
        NoKeys(who) =>
            /\ KemReturned(who, "encrypt_data") => KeysNotDerived(Get(kem.result))
            /\ KemReturned(who, "decrypt_data") => KeysNotDerived(Get(kem.result))
            /\ KemReturned(who, "generate_finished") => Get(kem.result).kind = "panic"
            /\ KemReturned(who, "verify_finished") => Get(kem.result).kind = "panic"

\* a buffer decrypt_data looks into: at least 3 bytes, the first of them
\* the application data type
Framed(data) == ByteLen(data) >= 3 /\ data[1] = Byte(APPLICATION_DATA)

\* a buffer that deserializes to a record of the given type
WellFormed(data, msg_type) ==
    /\ KemHandshakeMessage_deserialize(data).kind = "Ok"
    /\ KemHandshakeMessage_deserialize(data).msg_type = msg_type

\* C38 (amended): before the hello exchange has succeeded on an object,
\* encrypt_data returns Err("Keys not derived yet"), and so does
\* decrypt_data on a buffer of at least 3 bytes that starts with the
\* application data type (any other buffer gets Err("Invalid application
\* data")); generate_finished aborts, and verify_finished aborts on a
\* buffer that holds a Finished record and returns an Err on any other.
\* The keys are missing exactly as long as no hello call returned Ok.
C38_OutOfOrderCallsByInput ==
    \A who \in {"client", "server"} :
        /\ NoKeys(who) <=>
               ~\E i \in 1..Len(kem.log[who]) :
                   /\ kem.log[who][i].op \in {"process_server_hello", "process_client_hello"}
                   /\ kem.log[who][i].kind = "Ok"
        /\ NoKeys(who) =>
            /\ kem[who].client_cipher = None
            /\ kem[who].server_cipher = None
            /\ KemReturned(who, "encrypt_data") => KeysNotDerived(Get(kem.result))
            /\ KemReturned(who, "decrypt_data") =>
                   IF Framed(Get(kem.result).input[2])
                   THEN KeysNotDerived(Get(kem.result))
                   ELSE Get(kem.result) = [who |-> who, op |-> "decrypt_data",
                                           input |-> Get(kem.result).input, kind |-> "Err",
                                           msg |-> "Invalid application data", val |-> <<>>]
            /\ KemReturned(who, "generate_finished") => Get(kem.result).kind = "panic"
            /\ KemReturned(who, "verify_finished") =>
                   IF WellFormed(Get(kem.result).input[2], FINISHED)
                   THEN Get(kem.result).kind = "panic"
                   ELSE Get(kem.result).kind = "Err"

C38_Witness ==
    /\ NoKeys("server")
    /\ KemReturned("server", "verify_finished")
    /\ Get(kem.result).kind = "panic"
    /\ "server" \in kem.dead
    /\ NoKeys("client")
    /\ kem.log.client = <<>>

\* the call was turned down after the type of the record had been accepted
KeptBytes(entry) ==
    /\ entry.op \in {"process_server_hello", "process_client_hello", "verify_finished"}
    /\ entry.kind # "Ok"
    /\ entry.msg \notin {"Message too short", "Incomplete message", "Expected ServerHello", "Expected ClientHello", "Expected Finished"}

\* position of the first entry of the log with this operation, or one past
\* the end of the log
FirstOf(log, op) ==
    IF \E i \in 1..Len(log) : log[i].op = op
    THEN CHOOSE i \in 1..Len(log) : log[i].op = op /\ \A j \in 1..(i - 1) : log[j].op # op
    ELSE Len(log) + 1

\* C39: a step that fails after the type tag matched leaves the received
\* bytes in the transcript, a step that fails before leaves the object as
\* it was; and once an object has kept rejected bytes, the Finished of a
\* later exchange does not verify: verify_finished on the client's
\* Finished fails when the server kept rejected bytes before, or the
\* client did before it made the Finished.
C39_RejectedBytesStay ==
    [][kem'.log # kem.log =>
          /\ KeptBytes(Get(kem'.result)) =>
                 kem'[Get(kem'.result).who].handshake_messages
                     = kem[Get(kem'.result).who].handshake_messages
                           \o Get(kem'.result).input[2]
          /\ (Get(kem'.result).kind = "Err" /\ ~KeptBytes(Get(kem'.result))) =>
                 kem'[Get(kem'.result).who] = kem[Get(kem'.result).who]
          /\ (/\ KemReturned("server", "verify_finished")'
              /\ Get(kem'.result).input[1] = "finished"
              /\ \/ \E i \in 1..Len(kem.log.server) : KeptBytes(kem.log.server[i])
                 \/ \E i \in 1..Len(kem.log.client) :
                        /\ KeptBytes(kem.log.client[i])
                        /\ i < FirstOf(kem.log.client, "generate_finished")) =>
                 /\ Get(kem'.result).kind = "Err"
                 /\ Get(kem'.result).msg = "Finished verification failed"
      ]_vars

\* the client kept a ServerHello with a ciphertext of a wrong length, then
\* the exchange went through on unmodified bytes, and the Finished fails
C39_Witness ==
    /\ Len(kem.log.client) = 4
    /\ kem.log.client[2] = [op |-> "process_server_hello", input |-> "wrong_length",
                            kind |-> "Err", msg |-> "Invalid ciphertext"]
    /\ kem.log.client[3] = [op |-> "process_server_hello", input |-> "server_hello",
                            kind |-> "Ok", msg |-> ""]
    /\ kem.log.server = <<[op |-> "process_client_hello", input |-> "client_hello",
                           kind |-> "Ok", msg |-> ""],
                          [op |-> "verify_finished", input |-> "finished",
                           kind |-> "Err", msg |-> "Finished verification failed"]>>
    /\ kem.client.client_cipher = kem.server.client_cipher

\* process_client_hello has returned Ok on the server
ServerHelloDone ==
    \E i \in 1..Len(kem.log.server) :
        kem.log.server[i].op = "process_client_hello" /\ kem.log.server[i].kind = "Ok"

\* the client's record, made with the key the server reads with
ClientRecordForServer ==
    /\ IsSome(kem.client_record)
    /\ Get(kem.client_record)
           = encrypt_data(kem.server.client_cipher, <<Byte(97)>>,
                          <<Rand(NONCE_SIZE, "client_nonce")>>).val

\* C40: once process_client_hello has returned Ok, the server holds both
\* keys and keeps them; its encrypt_data returns a record and its
\* decrypt_data opens the client's record, whether verify_finished was
\* never called, returned Ok or returned an error.
C40_ServerDataWithoutFinished ==
    ServerHelloDone =>
        /\ IsSome(kem.server.client_cipher)
        /\ IsSome(kem.server.server_cipher)
        /\ KemReturned("server", "encrypt_data") =>
               /\ Get(kem.result).kind = "Ok"
               /\ kem.server_record = Some(Get(kem.result).val)
        /\ (/\ KemReturned("server", "decrypt_data")
            /\ Get(kem.result).input[1] = "client_record"
            /\ ClientRecordForServer) =>
               /\ Get(kem.result).kind = "Ok"
               /\ Get(kem.result).val = <<Byte(97)>>

\* verify_finished returned an error, and the server opens the client's
\* record afterwards
C40_Witness ==
    /\ ServerHelloDone
    /\ \E i \in 1..Len(kem.log.server) :
           kem.log.server[i].op = "verify_finished" /\ kem.log.server[i].kind = "Err"
    /\ KemReturned("server", "decrypt_data")
    /\ Get(kem.result).kind = "Ok"
    /\ Get(kem.result).val = <<Byte(97)>>
    /\ IsSome(kem.server_record)

=============================================================================
